---------------------------- MODULE Spec2Model ----------------------------
(***************************************************************************)
(* Bulk SMS notification pipeline of naija-result-connect.                 *)
(*                                                                         *)
(*   client : src/src/services/smsService.ts  (class SMSService)           *)
(*   server : src/unnamed/part_001            (express SMS server)         *)
(*            src/unnamed/part_000            (notification server)        *)
(*   page   : src/src/services/notificationService.ts                      *)
(*                                                                         *)
(* Strings are sequences of one-character strings, so that the character   *)
(* operations of the code (replace, startsWith, substring, charAt) are     *)
(* modelled by what they do.                                               *)
(***************************************************************************)
EXTENDS Integers, Sequences, FiniteSets, Bags, TLC

VARIABLES
    raw,          \* normalizer harness: the input string
    normClient,   \* normalizer harness: SMSService.formatPhoneNumber(raw)
    normServer,   \* normalizer harness: formatPhone(raw)
    normDone,     \* normalizer harness: both normalizers have been applied
    impl,         \* batch: which dispatcher runs, "server" (processSMSBatch)
                  \*        or "client" (SMSService.sendBulkSMS)
    students,     \* batch: the recipient list passed to the dispatcher
    messageTemplate, \* batch: the message (template) passed to the dispatcher
    i,            \* batch: the loop index of the dispatcher (0-based)
    bpc,          \* batch: position of the dispatcher
    srv,          \* server: the results object of processSMSBatch
    retriesLeft,  \* server: the retries left of the sendSMS in progress
    trace,        \* history: gateway sends, HTTP requests, delays, callbacks
    returned,     \* batch: what the dispatch call returned (NoValue before)
    onProgress,   \* client: whether sendBulkSMS was given a progress callback
    apiKey,       \* environment: the SendChamp API key of the running program
                  \*              (VITE_SENDCHAMP_API_KEY, SENDCHAMP_API_KEY)
    bulk,         \* client: sent, failed and results of sendBulkSMS
    sms_records,  \* client: the table sms_records; a row's id is its index
    cpc,          \* client: position of each caller
    loc,          \* client: locals of each caller
    sweep,        \* client: locals of each caller's retry-all loop
    gatewaySends, \* history: the bag of record ids, one copy per Gateway
                  \*          Client send made for the record
    upd,          \* store: locals of each caller's updateSMSRecord call
    api,          \* http: the request an endpoint of a server is handling,
                  \*       and its response
    results,      \* http: the table results; a row's id is its index
    notify,       \* http: locals of each POST /api/notify-results request
    delivered,    \* history: the bag of result ids, one copy per
                  \*          result-published SMS the gateway accepted
    publish       \* page: locals of NotificationService.publishAndNotifyResults

normVars == <<raw, normClient, normServer, normDone>>
batchVars == <<impl, students, messageTemplate, i, bpc, srv, retriesLeft, trace, returned>>
clientVars == <<onProgress, apiKey, bulk, sms_records, cpc, loc, sweep, gatewaySends, upd>>
notifyVars == <<results, notify, delivered, publish>>
vars == <<normVars, batchVars, clientVars, api, notifyVars>>

\* What no action of a dispatch changes, and what the client (the server)
\* leaves alone.
batchInputs == <<impl, students, messageTemplate, onProgress, apiKey>>
clientFrame == <<normVars, batchInputs, srv, retriesLeft, sweep, upd, api, notifyVars>>
serverFrame == <<normVars, batchInputs, bulk, sms_records, cpc, loc, sweep, gatewaySends, upd, api, notifyVars>>
\* What a call of updateSMSRecord on its own leaves alone.
storeFrame == <<normVars, batchVars, onProgress, apiKey, bulk, loc, sweep, gatewaySends, api, notifyVars>>

-----------------------------------------------------------------------------
(* Strings *)

Digits == {"0", "1", "2", "3", "4", "5", "6", "7", "8", "9"}

\* JavaScript null, as returned by the normalizers.  It is a value no string
\* (sequence of one-character strings) is equal to.
Null == <<"null">>

\* A truthy value that is not a string (a number read from JSON): calling
\* .replace on it raises a TypeError.
NonString == <<"non-string">>

\* The exception marker an operator returns when the code would throw.
TypeError == <<"TypeError">>

IsDigit(c) == c \in Digits

\* phone.replace(/\D/g, '')
StripNonDigits(s) == SelectSeq(s, IsDigit)

\* s.startsWith(p)
StartsWith(s, p) == Len(s) >= Len(p) /\ SubSeq(s, 1, Len(p)) = p

\* s.substring(1)
Substring1(s) == SubSeq(s, 2, Len(s))

\* s.charAt(k), k 0-indexed; '' when out of range
CharAt(s, k) == IF k + 1 \in 1..Len(s) THEN s[k + 1] ELSE ""

CountryCode == <<"2", "3", "4">>
PlusCountryCode == <<"+", "2", "3", "4">>
MobilePrefixes == {"7", "8", "9"}

-----------------------------------------------------------------------------
(* Phone normalizers *)

\* SMSService.formatPhoneNumber (smsService.ts:47-68).  The three prefix
\* branches return before the validation at the end is reached.
formatPhoneNumber(phone) ==
    IF phone = <<>> \/ phone = Null THEN Null
    ELSE IF phone = NonString THEN TypeError
    ELSE LET cleaned == StripNonDigits(phone) IN
         IF StartsWith(cleaned, <<"0">>) THEN CountryCode \o Substring1(cleaned)
         ELSE IF StartsWith(cleaned, PlusCountryCode) THEN Substring1(cleaned)
         ELSE IF ~StartsWith(cleaned, CountryCode) THEN CountryCode \o cleaned
         ELSE IF Len(cleaned) = 13 /\ CharAt(cleaned, 3) \in MobilePrefixes
              THEN cleaned
              ELSE Null

\* formatPhone with the leading 0 kept next to the country code.
formatPhone_keepZero(phone) ==
    IF phone = <<>> \/ phone = Null THEN Null
    ELSE IF phone = NonString THEN TypeError
    ELSE LET cleaned0 == StripNonDigits(phone)
             cleaned == IF StartsWith(cleaned0, <<"0">>)
                            THEN CountryCode \o cleaned0
                        ELSE IF ~StartsWith(cleaned0, CountryCode) /\ Len(cleaned0) = 10
                            THEN CountryCode \o cleaned0
                        ELSE cleaned0
         IN IF Len(cleaned) = 13 /\ CharAt(cleaned, 3) \in MobilePrefixes
                THEN cleaned
                ELSE Null

\* formatPhone (part_001:52-64)
formatPhone(phone) ==
    IF phone = <<>> \/ phone = Null THEN Null
    ELSE IF phone = NonString THEN TypeError
    ELSE LET cleaned0 == StripNonDigits(phone)
             cleaned == IF StartsWith(cleaned0, <<"0">>)
                            THEN CountryCode \o Substring1(cleaned0)
                        ELSE IF ~StartsWith(cleaned0, CountryCode) /\ Len(cleaned0) = 10
                            THEN CountryCode \o cleaned0
                        ELSE cleaned0
         IN IF Len(cleaned) = 13 /\ CharAt(cleaned, 3) \in MobilePrefixes
                THEN cleaned
                ELSE Null

-----------------------------------------------------------------------------
(* Normalizer harness: the inputs *)

NormPrefixes ==
    { <<>>, <<"0">>, <<"2", "3", "4">>, <<"+", "2", "3", "4">>, <<"+">>,
      <<"0", "0">>, <<"2", "3">>, <<"2", "3", "4", "0">> }

NormFirstDigits == { <<"7">>, <<"8">>, <<"9">>, <<"1">>, <<"0">>, <<"x">> }

NormTails ==
    { <<>>,
      <<"0", "3", "1", "2", "3", "4", "5">>,
      <<"0", "3", "1", "2", "3", "4", "5", "6">>,
      <<"0", "3", "1", "2", "3", "4", "5", "6", "7">>,
      <<"0", "3", " ", "1", "2", "3", "-", "4", "5", "6", "7">>,
      <<"0", "3", "1", "2", "3", "4", "5", "6", "7", "8">> }

NormExamples ==
    { <<>>,
      <<"1", "2", "3">>,
      <<"i", "n", "v", "a", "l", "i", "d">>,
      <<"0", "8", "0", "3", "1", "2", "3", "4", "5", "6", "7">>,
      <<"+", "2", "3", "4", "8", "0", "3", "1", "2", "3", "4", "5", "6", "7">> }

RawPhones ==
    NormExamples \cup
    { p \o d \o t : p \in NormPrefixes, d \in NormFirstDigits, t \in NormTails }

NormInit ==
    /\ raw \in RawPhones
    /\ normClient = Null
    /\ normServer = Null
    /\ normDone = FALSE

\* Apply both normalizers to the input.
Normalize ==
    /\ ~normDone
    /\ normClient' = formatPhoneNumber(raw)
    /\ normServer' = formatPhone(raw)
    /\ normDone' = TRUE
    /\ UNCHANGED raw

NormNext == Normalize /\ UNCHANGED <<batchVars, clientVars, api, notifyVars>>

-----------------------------------------------------------------------------
(* Strings used by the dispatchers *)

\* JavaScript undefined (an argument not passed, a field not set).
Undefined == <<"undefined">>

Min(a, b) == IF a <= b THEN a ELSE b

\* s.indexOf(pat), 1-based; 0 when pat does not occur in s
IndexOf(s, pat) ==
    LET hits == UNION { { k \in 1..(Len(str) - Len(pat) + 1) :
                              SubSeq(str, k, k + Len(pat) - 1) = pat }
                        : str \in {s} }
    IN IF hits = {} THEN 0
       ELSE CHOOSE k \in hits : \A j \in hits : k <= j

\* A JavaScript number, written with its decimal digits: a value that is not
\* a string.  The number 0 is falsy, the string "0" is not.
NumberOf(digits) == <<"number">> \o digits
IsNumber(v) == Len(v) > 0 /\ v[1] = "number"
Zero == NumberOf(<<"0">>)

\* ToString of a value used as a replacement (part_001:130-133).
JsToString(v) ==
    IF v = Undefined THEN <<"u", "n", "d", "e", "f", "i", "n", "e", "d">>
    ELSE IF v = Null THEN <<"n", "u", "l", "l">>
    ELSE IF IsNumber(v) THEN Tail(v)
    ELSE v

\* !v: undefined, null, the empty string and the number 0 are falsy.
JsFalsy(v) == v \in {Undefined, Null, <<>>, Zero}

\* a || b
JsOr(a, b) == IF JsFalsy(a) THEN b ELSE a

\* The grave accent, taken out of a two-character string (a string that
\* holds it alone is not read by the parser).
GraveAccent == SubSeq("`'", 1, 1)

\* GetSubstitution of String.prototype.replace for a string pattern: in the
\* replacement $$ is a dollar, $& the match, dollar-grave the text before
\* the match and dollar-apostrophe the text after it; there are no captures,
\* so every other use of the dollar stands for itself.
RECURSIVE GetSubstitution(_, _, _, _)
GetSubstitution(rep, matched, before, after) ==
    IF rep = <<>> THEN <<>>
    ELSE IF Len(rep) >= 2 /\ rep[1] = "$"
               /\ rep[2] \in {"$", "&", GraveAccent, "'"}
        THEN ( CASE rep[2] = "$" -> <<"$">>
                 [] rep[2] = "&" -> matched
                 [] rep[2] = GraveAccent -> before
                 [] rep[2] = "'" -> after )
             \o GetSubstitution(SubSeq(rep, 3, Len(rep)), matched, before, after)
    ELSE <<rep[1]>> \o GetSubstitution(Tail(rep), matched, before, after)

\* s.replace(pat, rep) with a string pattern: the first occurrence only, the
\* replacement converted to a string and expanded by GetSubstitution.
JsReplace(s, pat, rep) ==
    CHOOSE out \in
        { IF k = 0 THEN str
          ELSE SubSeq(str, 1, k - 1)
                   \o GetSubstitution(JsToString(rep), pat, SubSeq(str, 1, k - 1),
                                      SubSeq(str, k + Len(pat), Len(str)))
                   \o SubSeq(str, k + Len(pat), Len(str))
          : str \in {s}, k \in {IndexOf(s, pat)} } : TRUE

\* s.substring(0, n)
Substring0(s, n) == SubSeq(s, 1, Min(n, Len(s)))

PhFirstName == <<"{", "f", "i", "r", "s", "t", "N", "a", "m", "e", "}">>
PhLastName == <<"{", "l", "a", "s", "t", "N", "a", "m", "e", "}">>
PhScore == <<"{", "s", "c", "o", "r", "e", "}">>
PhCgpa == <<"{", "c", "g", "p", "a", "}">>
NotAvailable == <<"N", "/", "A">>

\* The SMS length limit of processSMSBatch (part_001:134).
SmsLimit == 160

InvalidPhoneError == "Invalid phone number format"
\* error.message of the TypeError raised by phone.replace on a non-string
TypeErrorMessage == "phone.replace is not a function"

-----------------------------------------------------------------------------
(* The recipients *)

\* Largest recipient list dispatched.
MaxRecipients == 2

FirstNames == << <<"A", "d", "a">>, <<"B", "o">>, <<"C", "h", "i">>, <<"D", "e">> >>
LastNames == << <<"O", "k">>, <<"E", "z", "e">>, <<"B", "e", "l", "l", "o">>, <<"A", "l", "i">> >>

PhoneValid1 == <<"0", "8", "0", "3", "1", "1", "1", "1", "1", "1", "1">>
PhoneInvalidWord == <<"i", "n", "v", "a", "l", "i", "d">>
PhoneValid3 == <<"0", "8", "0", "3", "3", "3", "3", "3", "3", "3", "3">>
PhoneBadCountry == <<"2", "3", "4", "8", "0">>

\* The phone values a recipient may carry: two valid local numbers, a word, a
\* number with the country code and the wrong length, and a non-string.
PhoneSamples ==
    { PhoneValid1, PhoneInvalidWord, PhoneValid3, PhoneBadCountry, NonString }

\* The k-th row of the students table, with the given phone, as a dispatcher
\* gets it: total_score is results?.[0]?.total_score, calculatedCGPA the
\* value /api/notify-results adds (part_001:268-277).
Student(k, phone) ==
    [ id |-> k,
      first_name |-> FirstNames[((k - 1) % Len(FirstNames)) + 1],
      last_name |-> LastNames[((k - 1) % Len(LastNames)) + 1],
      phone |-> phone,
      total_score |-> IF k = 1 THEN NumberOf(<<"7", "5">>)
                      ELSE IF k = 2 THEN Zero ELSE Undefined,
      cgpa |-> IF k = 2 THEN NumberOf(<<"3", ".", "5">>) ELSE Undefined,
      calculatedCGPA |-> IF k = 3 THEN NumberOf(<<"3", ".", "8">>)
                         ELSE IF k = 1 THEN Zero ELSE Undefined ]

StudentLists ==
    UNION { { [k \in 1..n |-> Student(k, ph[k])] : ph \in [1..n -> PhoneSamples] }
            : n \in 0..MaxRecipients }

\* `${student.first_name} ${student.last_name}`
StudentName(student) == student.first_name \o <<" ">> \o student.last_name

TemplateHi == <<"H", "i", " ">> \o PhFirstName

\* A template longer than the SMS limit, before and after substitution.
TemplateLong == TemplateHi \o [k \in 1..SmsLimit |-> "."]

Templates == { TemplateHi, TemplateLong }

\* Most recipients of a batch whose template is the long one.
MaxLongRecipients == 1

NoValue == [none |-> TRUE]

-----------------------------------------------------------------------------
(* History of what the dispatchers do to the outside world *)

\* kind: "send"     one invocation of a Gateway Client send for recipient idx
\*       "request"  one HTTP request to the gateway, answered with status
\*       "backoff"  the 2 s wait of sendSMS after a 429
\*       "pace"     the wait between two recipients
\*       "progress" the onProgress callback
\*       "raise"    a Gateway Client send raised instead of returning
\*       "write"    an insert or update of sms_records was issued (status: the
\*                  status written)
\*       "call"     a single send or a retry was started (idx: its number)
Ev(kind, idx, phone, status) ==
    [ev |-> kind, idx |-> idx, phone |-> phone, status |-> status]

\* The history after the events evs.  It is kept for batch dispatches; single
\* sends and retries count their sends and writes in the caller's frame.
Log(evs) == IF impl = "retry" THEN trace ELSE trace \o evs

EventsOf(kind) == SelectSeq(trace, LAMBDA e : e.ev = kind)

-----------------------------------------------------------------------------
(* Server: sendSMS and processSMSBatch (part_001) *)

\* What the gateway answers to one HTTP request of the server: 2xx, 429,
\* another error status, or no response at all (timeout, network failure).
\* The SMS server does not read the body of a 2xx answer beyond logging it
\* (part_001:85-89): "200" is every 2xx answer.
ServerHttp == {"200", "429", "500", "timeout"}

\* A 2xx answer whose JSON body is null: response.data is null.
NullBody == "200-null"

\* The 2xx answers.
Http2xx == {"200", NullBody}

\* error.message of the TypeError that reading the property data of null
\* throws (part_000:75, 119: response.data.data; smsService.ts:103:
\* result.data).
NullDataError == "Cannot read properties of null (reading 'data')"

\* sendSMS's default for its retries parameter (part_001:67).
DefaultRetries == 2

\* sendSMS with the retry guard off by one (retries >= 0).
sendSMS_retryOnce(phone, message, retries, resp) ==
    IF resp \in Http2xx
        THEN [success |-> TRUE, error |-> "", retry |-> FALSE, raised |-> FALSE]
    ELSE IF resp = "429" /\ retries >= 0
        THEN [success |-> FALSE, error |-> resp, retry |-> TRUE, raised |-> FALSE]
    ELSE [success |-> FALSE, error |-> resp, retry |-> FALSE, raised |-> FALSE]

\* sendSMS with a retry on every failure, not only on 429.
sendSMS_retryAll(phone, message, retries, resp) ==
    IF resp \in Http2xx
        THEN [success |-> TRUE, error |-> "", retry |-> FALSE, raised |-> FALSE]
    ELSE IF retries > 0
        THEN [success |-> FALSE, error |-> resp, retry |-> TRUE, raised |-> FALSE]
    ELSE [success |-> FALSE, error |-> resp, retry |-> FALSE, raised |-> FALSE]

\* sendSMS(phone, message, studentName, retries) (part_001:67-102) when its
\* request is answered with resp: success on 2xx; on 429 with retries left
\* it waits 2 s and calls itself with one retry less (retry); every other
\* failure is returned.  It never raises.
sendSMS(phone, message, retries, resp) ==
    IF resp \in Http2xx
        THEN [success |-> TRUE, error |-> "", retry |-> FALSE, raised |-> FALSE]
    ELSE IF resp = "429" /\ retries > 0
        THEN [success |-> FALSE, error |-> resp, retry |-> TRUE, raised |-> FALSE]
    ELSE [success |-> FALSE, error |-> resp, retry |-> FALSE, raised |-> FALSE]

\* The message of processSMSBatch (part_001:129-134): the four replacements,
\* a falsy score or CGPA written as N/A, then the cut to the SMS limit.
RenderMessage(template, student) ==
    Substring0(
        JsReplace(
            JsReplace(
                JsReplace(
                    JsReplace(template, PhFirstName, student.first_name),
                    PhLastName, student.last_name),
                PhScore, JsOr(student.total_score, NotAvailable)),
            PhCgpa, JsOr(student.calculatedCGPA,
                         JsOr(student.cgpa, NotAvailable))),
        SmsLimit)

\* A run of a server's loop over students: its arguments, the loop index,
\* where it waits (loop: not waiting; request: for the gateway's answer;
\* backoff: for the 2 s timer of sendSMS; pace: for the timer between two
\* recipients), the retries left of the sendSMS in progress, the results and
\* the events so far.
ServerRun(kind, studs, template) ==
    [ kind |-> kind, students |-> studs, template |-> template,
      i |-> 0, pc |-> "loop", retries |-> 0,
      sent |-> <<>>, failed |-> <<>>, events |-> <<>> ]

NoRun == ServerRun("none", <<>>, <<>>)

\* results.failed.push({student, phone, error}), then the next recipient.
FailedPush(run, phone, error) ==
    [run EXCEPT !.failed = Append(@, [student |-> StudentName(run.students[run.i + 1]),
                                      phone |-> phone, error |-> error]),
                !.i = @ + 1]

\* The loop of processSMSBatch (part_001:111-135) from recipient run.i up to
\* its next await: a recipient whose phone is refused is pushed to
\* results.failed (continue, or the catch for an exception) and the loop
\* goes on; for the first other recipient the message is rendered and
\* sendSMS makes its request.  When no recipient is left the loop is over.
RECURSIVE processSMSBatch_loop(_)
processSMSBatch_loop(run) ==
    IF run.i >= Len(run.students) THEN [run EXCEPT !.pc = "loop"]
    ELSE LET student == run.students[run.i + 1]
             phone == formatPhone(student.phone)
         IN IF phone = TypeError
                THEN processSMSBatch_loop(FailedPush(run, student.phone, TypeErrorMessage))
            ELSE IF phone = Null
                THEN processSMSBatch_loop(FailedPush(run, student.phone, InvalidPhoneError))
            ELSE [run EXCEPT !.pc = "request",
                             !.retries = DefaultRetries,
                             !.events = Append(@, Ev("send", run.i, phone, ""))]

\* The request of sendSMS is answered with resp (part_001:72-101, 136-158):
\* on a retry the 2 s timer is started; otherwise sendSMS returns, the
\* recipient is pushed to results.sent or results.failed and, unless it is
\* the last, the 500 ms timer is started; after the last the loop is over.
processSMSBatch_answer(run, resp) ==
    LET student == run.students[run.i + 1]
        phone == formatPhone(student.phone)
        message == RenderMessage(run.template, student)
        smsResult == sendSMS(phone, message, run.retries, resp)
        heard == [run EXCEPT !.events = Append(@, Ev("request", run.i, phone, resp))]
    IN IF smsResult.retry THEN [heard EXCEPT !.pc = "backoff"]
       ELSE IF smsResult.raised
           \* catch (error)
           THEN processSMSBatch_loop(
                    FailedPush([heard EXCEPT !.events =
                                   Append(@, Ev("raise", run.i, phone, ""))],
                               student.phone, smsResult.error))
       ELSE LET counted ==
                    IF smsResult.success
                        THEN [heard EXCEPT !.sent =
                                 Append(@, [student |-> StudentName(student),
                                            phone |-> phone, message |-> message])]
                        ELSE [heard EXCEPT !.failed =
                                 Append(@, [student |-> StudentName(student),
                                            phone |-> phone,
                                            error |-> smsResult.error])]
            IN IF run.i < Len(run.students) - 1
                   THEN [counted EXCEPT !.pc = "pace"]
                   ELSE processSMSBatch_loop([counted EXCEPT !.i = @ + 1])

\* The 2 s timer of sendSMS fires: sendSMS calls itself with one retry less
\* and makes the next request (part_001:96-97).
sendSMS_backoff(run) ==
    [run EXCEPT !.pc = "request",
                !.retries = @ - 1,
                !.events = Append(@, Ev("backoff", run.i,
                                        formatPhone(run.students[run.i + 1].phone), ""))]

\* The 500 ms timer fires: the loop goes on with the next recipient
\* (part_001:156-158).
processSMSBatch_pace(run) ==
    processSMSBatch_loop([run EXCEPT !.i = @ + 1,
                                     !.events = Append(@, Ev("pace", run.i, <<>>, ""))])

-----------------------------------------------------------------------------
(* Client: the Delivery Record Store (table sms_records) *)

\* The callers of the client that may be in flight at the same time.
Procs == {"p1", "p2"}

\* undefined, for a string-valued argument or column
UndefStr == "undefined"

\* SMSService.MAX_RETRIES (smsService.ts:44)
MAX_RETRIES == 3

\* createSMSRecord (smsService.ts:115-149): the row inserted, attempts 1.
\* A undefined sid or error_message is left out of the insert: the column
\* is null.
NewSMSRecord(studentId, phoneNumber, message, status, sid, errorMessage) ==
    [ student_id |-> studentId,
      phone_number |-> phoneNumber,
      message |-> message,
      status |-> status,
      attempts |-> 1,
      sid |-> sid,
      error_message |-> errorMessage ]

\* createSMSRecord: the table after the insert; the new row's id is its index.
createSMSRecord(table, studentId, phoneNumber, message, status, sid, errorMessage) ==
    Append(table, NewSMSRecord(studentId, phoneNumber, message, status, sid, errorMessage))

\* The value the update request carries for attempts (smsService.ts:164):
\* the query builder supabase.rpc('increment_attempts', ...) returns, which
\* is neither awaited nor sent, so increment_attempts (sql:57-72) never runs.
RpcBuilder == [kind |-> "object", value |-> 0]

\* An integer as the value of a column in a request.
JsInteger(n) == [kind |-> "integer", value |-> n]

\* The row of the update request of updateSMSRecord (smsService.ts:159-168).
\* An undefined sid or error_message is not part of the request body.
UpdateRow(status, sid, errorMessage) ==
    [ status |-> status, attempts |-> RpcBuilder,
      sid |-> sid, error_message |-> errorMessage ]

\* The table after the store applied the update request row to the record,
\* and whether it did: the column attempts is integer NOT NULL (sql:33), a
\* row whose attempts is not an integer is refused.
StoreUpdate(table, recordId, row) ==
    IF row.attempts.kind # "integer"
        THEN [table |-> table, ok |-> FALSE]
    ELSE IF recordId \notin 1..Len(table)
        THEN [table |-> table, ok |-> TRUE]
    ELSE [ table |-> [table EXCEPT ![recordId] =
                        [@ EXCEPT !.status = row.status,
                                  !.attempts = row.attempts.value,
                                  !.sid = IF row.sid = UndefStr THEN @ ELSE row.sid,
                                  !.error_message =
                                      IF row.error_message = UndefStr
                                          THEN @ ELSE row.error_message]],
           ok |-> TRUE ]

\* updateSMSRecord whose request carries the record's attempts plus one.
updateSMSRecord_stored(table, recordId, status, sid, errorMessage) ==
    StoreUpdate(table, recordId,
                [UpdateRow(status, sid, errorMessage) EXCEPT
                    !.attempts = JsInteger(IF recordId \in 1..Len(table)
                                               THEN table[recordId].attempts + 1
                                               ELSE 1)])

\* updateSMSRecord (smsService.ts:152-181): the table after the call and the
\* boolean it returns.  The store refuses the row, the error is logged and
\* false is returned: the record is as it was.
updateSMSRecord(table, recordId, status, sid, errorMessage) ==
    StoreUpdate(table, recordId, UpdateRow(status, sid, errorMessage))

-----------------------------------------------------------------------------
(* Client: SMSService.sendSMS *)

\* What one fetch of the client meets: a 2xx answer whose JSON body holds
\* the message id, one whose body holds none, one whose body is not JSON,
\* one whose body is null, 429, another error status, or no answer (fetch
\* rejects).
ClientHttp ==
    {"200", "200-no-id", "200-not-json", NullBody, "429", "500", "network"}

\* The answers that make a send succeed.
OkAnswers == {"200", "200-no-id"}

\* error.message of the SyntaxError response.json() rejects with.
JsonError == "Unexpected token < in JSON"
ApiKeyError == "SendChamp API key not configured"

\* The error a send returns for an answer: the message of the thrown Error.
SendError(resp) ==
    IF resp = "200-not-json" THEN JsonError
    ELSE IF resp = NullBody THEN NullDataError
    ELSE resp

\* The environment variable is set / is not set.
KeySet == "sk-key"
KeyUnset == UndefStr

\* SMSService.sendSMS (smsService.ts:71-112) up to its fetch: without an API
\* key it throws before any request and returns the failure.
SMSService_sendSMS_unconfigured ==
    [success |-> FALSE, sid |-> UndefStr, error |-> ApiKeyError, http |-> <<>>,
     raised |-> FALSE]

\* SMSService.sendSMS (smsService.ts:71-112): one fetch, no retry; every
\* failure is caught and returned.  resp is the answer to the fetch.
SMSService_sendSMS(phoneNumber, message, resp) ==
    IF apiKey = KeyUnset THEN SMSService_sendSMS_unconfigured
    ELSE IF resp = "200"
        THEN [success |-> TRUE, sid |-> "gw-id", error |-> UndefStr, http |-> <<resp>>,
              raised |-> FALSE]
    ELSE IF resp = "200-no-id"
        THEN [success |-> TRUE, sid |-> UndefStr, error |-> UndefStr, http |-> <<resp>>,
              raised |-> FALSE]
    ELSE [success |-> FALSE, sid |-> UndefStr, error |-> SendError(resp),
          http |-> <<resp>>, raised |-> FALSE]

NoSmsResult ==
    [success |-> FALSE, sid |-> UndefStr, error |-> UndefStr, http |-> <<>>,
     raised |-> FALSE]

\* The return value of sendSMSToStudent and retrySMS.
Ret(success, recordId, error) ==
    [success |-> success, recordId |-> recordId, error |-> error]

NoRet == Ret(FALSE, 0, "none")

\* The locals of one caller.  recordId 0 is undefined / null.
IdleLocals ==
    [ op |-> "none",              \* the operation the caller runs
      idx |-> 0,                  \* bulk: the recipient being processed
      studentId |-> 0,            \* sendSMSToStudent: arguments
      phoneNumber |-> <<>>,
      message |-> <<>>,
      recordId |-> 0,
      formattedPhone |-> Null,    \* sendSMSToStudent: locals
      currentRecordId |-> 0,
      smsResult |-> NoSmsResult,
      stsRet |-> NoRet,           \* what sendSMSToStudent returned
      thrown |-> "none",          \* the message of the exception in flight
      attempts |-> 0,             \* retrySMS: record.attempts as read (0: not read)
      status |-> "none",          \* retrySMS: record.status as read
      ret |-> NoRet,              \* retrySMS: its return value
      sends |-> 0,                \* Gateway Client sends made by this call
      writes |-> 0,               \* inserts and updates issued by this call
      stored |-> 0 ]              \* those of them the store carried out

-----------------------------------------------------------------------------
(* Client: sendSMSToStudent (smsService.ts:184-224), one action per await *)

SetPc(p, to) == cpc' = [cpc EXCEPT ![p] = to]

\* sendSMSToStudent without the test of the normalizer's result.
sendSMSToStudent_format_noReject(p) ==
    /\ cpc[p] = "sts_format"
    /\ LET formattedPhone == formatPhoneNumber(loc[p].phoneNumber) IN
       IF formattedPhone = TypeError THEN
           /\ loc' = [loc EXCEPT ![p].thrown = TypeErrorMessage]
           /\ SetPc(p, "sts_throw")
       ELSE
           /\ loc' = [loc EXCEPT ![p].formattedPhone = formattedPhone,
                                 ![p].currentRecordId = loc[p].recordId]
           /\ SetPc(p, IF loc[p].recordId = 0 THEN "sts_create" ELSE "sts_send")
    /\ UNCHANGED <<sms_records, bulk, trace, i, returned, bpc, clientFrame, gatewaySends>>

\* sendSMSToStudent that creates a record even when it is given the id of
\* the record to retry.
sendSMSToStudent_format_newRecord(p) ==
    /\ cpc[p] = "sts_format"
    /\ LET formattedPhone == formatPhoneNumber(loc[p].phoneNumber) IN
       IF formattedPhone = TypeError THEN
           /\ loc' = [loc EXCEPT ![p].thrown = TypeErrorMessage]
           /\ SetPc(p, "sts_throw")
       ELSE IF formattedPhone = Null THEN
           IF loc[p].recordId # 0
               THEN /\ loc' = loc
                    /\ SetPc(p, "sts_invalid")
               ELSE /\ loc' = [loc EXCEPT ![p].stsRet = Ret(FALSE, 0, InvalidPhoneError)]
                    /\ SetPc(p, "sts_return")
       ELSE
           /\ loc' = [loc EXCEPT ![p].formattedPhone = formattedPhone,
                                 ![p].currentRecordId = loc[p].recordId]
           /\ SetPc(p, "sts_create")
    /\ UNCHANGED <<sms_records, bulk, trace, i, returned, bpc, clientFrame, gatewaySends>>

\* formatPhoneNumber and the branch on its result (smsService.ts:190-204).
sendSMSToStudent_format(p) ==
    /\ cpc[p] = "sts_format"
    /\ LET formattedPhone == formatPhoneNumber(loc[p].phoneNumber) IN
       IF formattedPhone = TypeError THEN
           /\ loc' = [loc EXCEPT ![p].thrown = TypeErrorMessage]
           /\ SetPc(p, "sts_throw")
       ELSE IF formattedPhone = Null THEN
           IF loc[p].recordId # 0
               THEN /\ loc' = loc
                    /\ SetPc(p, "sts_invalid")
               ELSE /\ loc' = [loc EXCEPT ![p].stsRet = Ret(FALSE, 0, InvalidPhoneError)]
                    /\ SetPc(p, "sts_return")
       ELSE
           /\ loc' = [loc EXCEPT ![p].formattedPhone = formattedPhone,
                                 ![p].currentRecordId = loc[p].recordId]
           /\ SetPc(p, IF loc[p].recordId = 0 THEN "sts_create" ELSE "sts_send")
    /\ UNCHANGED <<sms_records, bulk, trace, i, returned, bpc, clientFrame, gatewaySends>>

\* await updateSMSRecord(recordId, 'failed', undefined, error); return
\* (smsService.ts:194-197).
sendSMSToStudent_invalid(p) ==
    /\ cpc[p] = "sts_invalid"
    /\ LET updated == updateSMSRecord(sms_records, loc[p].recordId,
                                      "failed", UndefStr, InvalidPhoneError)
       IN /\ sms_records' = updated.table
          /\ loc' = [loc EXCEPT ![p].stsRet = Ret(FALSE, 0, InvalidPhoneError),
                                ![p].writes = @ + 1,
                                ![p].stored = IF updated.ok THEN @ + 1 ELSE @]
    /\ trace' = Log(<<Ev("write", loc[p].idx, <<>>, "failed")>>)
    /\ SetPc(p, "sts_return")
    /\ UNCHANGED <<bulk, i, returned, bpc, clientFrame, gatewaySends>>

\* sendSMSToStudent that looks for a record of the same student and message
\* and takes it instead of inserting one.
sendSMSToStudent_create_reuse(p) ==
    /\ cpc[p] = "sts_create"
    /\ LET same == { r \in 1..Len(sms_records) :
                         /\ sms_records[r].student_id = loc[p].studentId
                         /\ sms_records[r].message = loc[p].message }
       IN IF same # {}
              THEN /\ sms_records' = sms_records
                   /\ loc' = [loc EXCEPT ![p].currentRecordId = CHOOSE r \in same : TRUE]
                   /\ trace' = trace
              ELSE \E persisted \in BOOLEAN :
                   /\ IF persisted
                          THEN /\ sms_records' = createSMSRecord(sms_records,
                                                     loc[p].studentId,
                                                     loc[p].formattedPhone,
                                                     loc[p].message,
                                                     "pending", UndefStr, UndefStr)
                               /\ loc' = [loc EXCEPT
                                             ![p].currentRecordId = Len(sms_records) + 1,
                                             ![p].writes = @ + 1,
                                             ![p].stored = @ + 1]
                          ELSE /\ sms_records' = sms_records
                               /\ loc' = [loc EXCEPT ![p].currentRecordId = 0,
                                                     ![p].writes = @ + 1]
                   /\ trace' = Log(<<Ev("write", loc[p].idx, <<>>, "pending")>>)
    /\ SetPc(p, "sts_send")
    /\ UNCHANGED <<bulk, i, returned, bpc, clientFrame, gatewaySends>>

\* currentRecordId = await createSMSRecord(..., 'pending') (smsService.ts:203).
\* The insert may fail: createSMSRecord returns null.
sendSMSToStudent_create(p) ==
    /\ cpc[p] = "sts_create"
    /\ \E persisted \in BOOLEAN :
         IF persisted
             THEN /\ sms_records' = createSMSRecord(sms_records, loc[p].studentId,
                                        loc[p].formattedPhone, loc[p].message,
                                        "pending", UndefStr, UndefStr)
                  /\ loc' = [loc EXCEPT ![p].currentRecordId = Len(sms_records) + 1,
                                        ![p].writes = @ + 1,
                                        ![p].stored = @ + 1]
             ELSE /\ sms_records' = sms_records
                  /\ loc' = [loc EXCEPT ![p].currentRecordId = 0,
                                        ![p].writes = @ + 1]
    /\ trace' = Log(<<Ev("write", loc[p].idx, <<>>, "pending")>>)
    /\ SetPc(p, "sts_send")
    /\ UNCHANGED <<bulk, i, returned, bpc, clientFrame, gatewaySends>>

\* smsResult = await this.sendSMS(formattedPhone, message) (smsService.ts:207).
\* Without an API key no request is made.
sendSMSToStudent_send(p) ==
    /\ cpc[p] = "sts_send"
    /\ \E resp \in (IF apiKey = KeyUnset THEN {"none"} ELSE ClientHttp) :
         LET smsResult == SMSService_sendSMS(loc[p].formattedPhone, loc[p].message, resp)
         IN /\ trace' = Log(
                  <<Ev("send", loc[p].idx, loc[p].formattedPhone, "")>> \o
                  [k \in 1..Len(smsResult.http) |->
                      Ev("request", loc[p].idx, loc[p].formattedPhone,
                         smsResult.http[k])] \o
                  (IF smsResult.raised
                       THEN <<Ev("raise", loc[p].idx, loc[p].formattedPhone, "")>>
                       ELSE <<>>))
            /\ IF smsResult.raised THEN
                   /\ loc' = [loc EXCEPT ![p].smsResult = smsResult,
                                         ![p].sends = @ + 1,
                                         ![p].thrown = smsResult.error]
                   /\ SetPc(p, "sts_throw")
               ELSE IF loc[p].currentRecordId # 0 THEN
                   /\ loc' = [loc EXCEPT ![p].smsResult = smsResult,
                                         ![p].sends = @ + 1]
                   /\ SetPc(p, "sts_update")
               ELSE
                   /\ loc' = [loc EXCEPT ![p].smsResult = smsResult,
                                         ![p].sends = @ + 1,
                                         ![p].stsRet = Ret(smsResult.success, 0,
                                                           smsResult.error)]
                   /\ SetPc(p, "sts_return")
    /\ UNCHANGED <<sms_records, bulk, i, returned, bpc, clientFrame>>
    /\ gatewaySends' = IF loc[p].currentRecordId # 0
                           THEN gatewaySends (+) SetToBag({loc[p].currentRecordId})
                           ELSE gatewaySends

\* sendSMSToStudent that reports a failure when the outcome could not be
\* stored.
sendSMSToStudent_update_report(p) ==
    /\ cpc[p] = "sts_update"
    /\ LET updated == updateSMSRecord(sms_records, loc[p].currentRecordId,
                          IF loc[p].smsResult.success THEN "sent" ELSE "failed",
                          loc[p].smsResult.sid, loc[p].smsResult.error)
       IN /\ sms_records' = updated.table
          /\ loc' = [loc EXCEPT ![p].stsRet = Ret(loc[p].smsResult.success /\ updated.ok,
                                                  loc[p].currentRecordId,
                                                  loc[p].smsResult.error),
                                ![p].writes = @ + 1,
                                ![p].stored = IF updated.ok THEN @ + 1 ELSE @]
    /\ trace' = Log(<<Ev("write", loc[p].idx, <<>>,
                          IF loc[p].smsResult.success THEN "sent" ELSE "failed")>>)
    /\ SetPc(p, "sts_return")
    /\ UNCHANGED <<bulk, i, returned, bpc, clientFrame, gatewaySends>>

\* await updateSMSRecord(currentRecordId, sent | failed, sid, error); return
\* (smsService.ts:210-223).  What updateSMSRecord returns is not looked at.
sendSMSToStudent_update(p) ==
    /\ cpc[p] = "sts_update"
    /\ LET updated == updateSMSRecord(sms_records, loc[p].currentRecordId,
                          IF loc[p].smsResult.success THEN "sent" ELSE "failed",
                          loc[p].smsResult.sid, loc[p].smsResult.error)
       IN /\ sms_records' = updated.table
          /\ loc' = [loc EXCEPT ![p].stsRet = Ret(loc[p].smsResult.success,
                                                  loc[p].currentRecordId,
                                                  loc[p].smsResult.error),
                                ![p].writes = @ + 1,
                                ![p].stored = IF updated.ok THEN @ + 1 ELSE @]
    /\ trace' = Log(<<Ev("write", loc[p].idx, <<>>,
                          IF loc[p].smsResult.success THEN "sent" ELSE "failed")>>)
    /\ SetPc(p, "sts_return")
    /\ UNCHANGED <<bulk, i, returned, bpc, clientFrame, gatewaySends>>

-----------------------------------------------------------------------------
(* Client: sendBulkSMS (smsService.ts:227-304) *)

\* The loop head: the progress callback, then the call of sendSMSToStudent
\* (smsService.ts:241-259).
sendBulkSMS_loop(p) ==
    /\ cpc[p] = "bulk_loop"
    /\ i < Len(students)
    /\ trace' = IF onProgress
                    THEN Append(trace, Ev("progress", i, <<>>, ""))
                    ELSE trace
    /\ loc' = [loc EXCEPT ![p] =
                  [IdleLocals EXCEPT !.op = "bulk",
                                     !.idx = i,
                                     !.studentId = students[i + 1].id,
                                     !.phoneNumber = students[i + 1].phone,
                                     !.message = messageTemplate,
                                     !.recordId = 0]]
    /\ SetPc(p, "sts_format")
    /\ UNCHANGED <<sms_records, bulk, i, returned, bpc, clientFrame, gatewaySends>>

\* sendBulkSMS with the progress callback made once more after the recipient
\* has been counted.
sendBulkSMS_tally_reportAfter(p) ==
    /\ cpc[p] = "sts_return"
    /\ loc[p].op = "bulk"
    /\ LET student == students[i + 1]
           result == loc[p].stsRet
       IN bulk' =
           IF result.success
               THEN [bulk EXCEPT
                       !.sent = @ + 1,
                       !.results = Append(@,
                           [ student_id |-> student.id,
                             student_name |-> StudentName(student),
                             phone |-> student.phone,
                             success |-> TRUE,
                             error |-> UndefStr,
                             sid |-> result.recordId ])]
               ELSE [bulk EXCEPT
                       !.failed = @ + 1,
                       !.results = Append(@,
                           [ student_id |-> student.id,
                             student_name |-> StudentName(student),
                             phone |-> student.phone,
                             success |-> FALSE,
                             error |-> result.error,
                             sid |-> 0 ])]
    /\ trace' = (IF onProgress
                     THEN Append(trace, Ev("progress", i, <<>>, ""))
                     ELSE trace)
                 \o (IF i < Len(students) - 1
                         THEN <<Ev("pace", i, <<>>, "")>>
                         ELSE <<>>)
    /\ i' = i + 1
    /\ SetPc(p, "bulk_loop")
    /\ UNCHANGED <<sms_records, loc, returned, bpc, clientFrame, gatewaySends>>

\* sendBulkSMS without the wait between two recipients.
sendBulkSMS_tally_noPace(p) ==
    /\ cpc[p] = "sts_return"
    /\ loc[p].op = "bulk"
    /\ LET student == students[i + 1]
           result == loc[p].stsRet
       IN bulk' =
           IF result.success
               THEN [bulk EXCEPT
                       !.sent = @ + 1,
                       !.results = Append(@,
                           [ student_id |-> student.id,
                             student_name |-> StudentName(student),
                             phone |-> student.phone,
                             success |-> TRUE,
                             error |-> UndefStr,
                             sid |-> result.recordId ])]
               ELSE [bulk EXCEPT
                       !.failed = @ + 1,
                       !.results = Append(@,
                           [ student_id |-> student.id,
                             student_name |-> StudentName(student),
                             phone |-> student.phone,
                             success |-> FALSE,
                             error |-> result.error,
                             sid |-> 0 ])]
    /\ trace' = trace
    /\ i' = i + 1
    /\ SetPc(p, "bulk_loop")
    /\ UNCHANGED <<sms_records, loc, returned, bpc, clientFrame, gatewaySends>>

\* sendSMSToStudent returned: count, push, wait 1 s unless this was the last
\* recipient (smsService.ts:261-284).
sendBulkSMS_tally(p) ==
    /\ cpc[p] = "sts_return"
    /\ loc[p].op = "bulk"
    /\ LET student == students[i + 1]
           result == loc[p].stsRet
       IN bulk' =
           IF result.success
               THEN [bulk EXCEPT
                       !.sent = @ + 1,
                       !.results = Append(@,
                           [ student_id |-> student.id,
                             student_name |-> StudentName(student),
                             phone |-> student.phone,
                             success |-> TRUE,
                             error |-> UndefStr,
                             sid |-> result.recordId ])]
               ELSE [bulk EXCEPT
                       !.failed = @ + 1,
                       !.results = Append(@,
                           [ student_id |-> student.id,
                             student_name |-> StudentName(student),
                             phone |-> student.phone,
                             success |-> FALSE,
                             error |-> result.error,
                             sid |-> 0 ])]
    /\ trace' = IF i < Len(students) - 1
                    THEN Append(trace, Ev("pace", i, <<>>, ""))
                    ELSE trace
    /\ i' = i + 1
    /\ SetPc(p, "bulk_loop")
    /\ UNCHANGED <<sms_records, loc, returned, bpc, clientFrame, gatewaySends>>

\* The catch of the loop body without failed++.
sendBulkSMS_catch_noCount(p) ==
    /\ cpc[p] = "sts_throw"
    /\ loc[p].op = "bulk"
    /\ LET student == students[i + 1] IN
       bulk' = [bulk EXCEPT
                   !.results = Append(@,
                       [ student_id |-> student.id,
                         student_name |-> StudentName(student),
                         phone |-> student.phone,
                         success |-> FALSE,
                         error |-> loc[p].thrown,
                         sid |-> 0 ])]
    /\ i' = i + 1
    /\ SetPc(p, "bulk_loop")
    /\ UNCHANGED <<sms_records, loc, trace, returned, bpc, clientFrame, gatewaySends>>

\* The loop body without its try/catch: the exception leaves sendBulkSMS.
sendBulkSMS_catch_rethrow(p) ==
    /\ cpc[p] = "sts_throw"
    /\ loc[p].op = "bulk"
    /\ bpc' = "raised"
    /\ SetPc(p, "idle")
    /\ UNCHANGED <<sms_records, loc, bulk, trace, i, returned, clientFrame, gatewaySends>>

\* catch (error) of the loop body (smsService.ts:286-295).
sendBulkSMS_catch(p) ==
    /\ cpc[p] = "sts_throw"
    /\ loc[p].op = "bulk"
    /\ LET student == students[i + 1] IN
       bulk' = [bulk EXCEPT
                   !.failed = @ + 1,
                   !.results = Append(@,
                       [ student_id |-> student.id,
                         student_name |-> StudentName(student),
                         phone |-> student.phone,
                         success |-> FALSE,
                         error |-> loc[p].thrown,
                         sid |-> 0 ])]
    /\ i' = i + 1
    /\ SetPc(p, "bulk_loop")
    /\ UNCHANGED <<sms_records, loc, trace, returned, bpc, clientFrame, gatewaySends>>

\* The loop is over: return { total, sent, failed, results }
\* (smsService.ts:298-303).
sendBulkSMS_return(p) ==
    /\ cpc[p] = "bulk_loop"
    /\ i >= Len(students)
    /\ returned' = [ total |-> Len(students), sent |-> bulk.sent,
                     failed |-> bulk.failed, results |-> bulk.results ]
    /\ bpc' = "done"
    /\ SetPc(p, "idle")
    /\ UNCHANGED <<sms_records, loc, bulk, trace, i, clientFrame, gatewaySends>>


\* The outcome data of an update: status, sid, errorMessage
\* (smsService.ts:195, 211-216, 374).
UpdateOutcomes ==
    { <<"sent", "gw-id", UndefStr>>,
      <<"failed", UndefStr, "500">>,
      <<"retry", UndefStr, UndefStr>> }

\* The locals of one call of updateSMSRecord on record 1.
IdleUpd ==
    [ data |-> <<"none", UndefStr, UndefStr>>,  \* status, sid, errorMessage
      ok |-> FALSE,               \* what the last call returned
      before |-> 0,               \* history: attempts when the call started
      first |-> 0,                \* history: attempts before the first call
      base |-> 0,                 \* history: attempts before any call
      calls |-> 0 ]               \* history: calls made

\* The locals of one retry-all loop (part_002:242-298, smsService.ts:395-431).
\* scope 0 is every student.
IdleSweep ==
    [ scope |-> 0,                \* studentId, or 0 for all students
      fetched |-> FALSE,          \* the list of failed records was read
      selected |-> <<>>,          \* failedRecords / retryableRecords (ids)
      pos |-> 0,                  \* records of the list already handled
      retried |-> <<>>,           \* ids retrySMS was called with, in order
      successful |-> 0,
      failed |-> 0,
      errors |-> <<>>,
      total |-> 0 ]               \* total of the returned summary

\* The number of POST /api/notify-results requests.
MaxRequests == 2
Requests == 1..MaxRequests

\* A request of POST /api/notify-results that has not arrived.
IdleNotify ==
    [ pc |-> "idle",
      server |-> "none",
      origin |-> "none",          \* who posted it: "http" or "publish"
      resultIds |-> {},           \* the ids of the results read as pending
      students |-> <<>>,          \* students / uniqueStudents (ids)
      cgpa |-> <<>>,              \* the answers of calculate_student_cgpa
      run |-> NoRun,              \* the loop over the students
      smsSent |-> 0,
      status |-> 0 ]              \* HTTP status of the response

\* publishAndNotifyResults has not been called.
IdlePublish ==
    [ pc |-> "idle",
      validResults |-> {},        \* ids of the results of valid addresses
      pendingIds |-> {},
      studentResults |-> <<>>,    \* the students of validResults (ids)
      pos |-> 0,                  \* students whose e-mail loop is over
      retryCount |-> 0,
      emailsSent |-> 0,
      request |-> 0,              \* its POST /api/notify-results
      smsSent |-> 0,
      errors |-> <<>>,
      success |-> FALSE,
      resultsPublished |-> 0 ]

\* No request of POST /api/notify-results, no result in the table.
NotifyIdle ==
    /\ results = <<>>
    /\ notify = [q \in Requests |-> IdleNotify]
    /\ delivered = EmptyBag
    /\ publish = IdlePublish

\* No request is being handled.
IdleApi ==
    [ server |-> "none", endpoint |-> "none",
      body |-> [studentIds |-> Undefined, title |-> Undefined,
                message |-> Undefined, phoneNumber |-> Undefined,
                phone |-> Undefined],
      pc |-> "idle",
      phones |-> <<>>,            \* the phone(s) of the request to the gateway
      retries |-> 0,              \* test-sms: retries left of sendSMS
      gateway |-> 0,              \* requests the handler itself made
      run |-> NoRun,              \* the handler's loop over the students
      status |-> 0, success |-> FALSE, smsSent |-> 0 ]

ClientIdle ==
    /\ sms_records = <<>>
    /\ cpc = [p \in Procs |-> "idle"]
    /\ loc = [p \in Procs |-> IdleLocals]
    /\ sweep = [p \in Procs |-> IdleSweep]
    /\ gatewaySends = EmptyBag
    /\ api = IdleApi
    /\ NotifyIdle
    /\ upd = [p \in Procs |-> IdleUpd]
    /\ bulk = [sent |-> 0, failed |-> 0, results |-> <<>>]
    /\ onProgress = FALSE
    /\ apiKey = KeySet

\* The recipient list of the end-to-end scenario of the specification.
ScenarioStudents ==
    << Student(1, PhoneValid1), Student(2, PhoneInvalidWord), Student(3, PhoneValid3) >>

\* A dispatch call has been made: processSMSBatch(students, messageTemplate)
\* on the server, or SMSService.sendBulkSMS(students, message, onProgress) by
\* caller p1 of the client, on an empty table.
BatchInit ==
    /\ impl \in {"server", "client"}
    /\ students \in StudentLists \cup {ScenarioStudents}
    /\ messageTemplate \in Templates
    /\ messageTemplate = TemplateLong => Len(students) <= MaxLongRecipients
    /\ i = 0
    /\ bpc = "loop"
    /\ srv = [sent |-> <<>>, failed |-> <<>>, total |-> Len(students)]
    /\ retriesLeft = 0
    /\ trace = <<>>
    /\ returned = NoValue
    /\ onProgress \in (IF impl = "client" THEN BOOLEAN ELSE {FALSE})
    /\ apiKey \in (IF impl = "client" /\ ~onProgress
                      THEN {KeySet, KeyUnset} ELSE {KeySet})
    /\ bulk = [sent |-> 0, failed |-> 0, results |-> <<>>]
    /\ sms_records = <<>>
    /\ cpc = [p \in Procs |-> IF impl = "client" /\ p = "p1" THEN "bulk_loop" ELSE "idle"]
    /\ loc = [p \in Procs |-> IdleLocals]
    /\ sweep = [p \in Procs |-> IdleSweep]
    /\ gatewaySends = EmptyBag
    /\ api = IdleApi
    /\ NotifyIdle
    /\ upd = [p \in Procs |-> IdleUpd]

\* The run of processSMSBatch of the dispatch in progress, and the state
\* after it has taken a step.
BatchRun ==
    [ kind |-> "sms-server", students |-> students, template |-> messageTemplate,
      i |-> i, pc |-> bpc, retries |-> retriesLeft,
      sent |-> srv.sent, failed |-> srv.failed, events |-> trace ]

SetBatchRun(run) ==
    /\ i' = run.i
    /\ bpc' = run.pc
    /\ retriesLeft' = run.retries
    /\ srv' = [srv EXCEPT !.sent = run.sent, !.failed = run.failed]
    /\ trace' = run.events

\* processSMSBatch(students, messageTemplate) is called and runs up to its
\* first await.
processSMSBatch_step ==
    /\ impl = "server"
    /\ bpc = "loop"
    /\ i < Len(students)
    /\ SetBatchRun(processSMSBatch_loop(BatchRun))
    /\ UNCHANGED <<returned, serverFrame>>

\* The gateway answers the request of sendSMS.
processSMSBatch_request ==
    /\ impl = "server"
    /\ bpc = "request"
    /\ \E resp \in ServerHttp : SetBatchRun(processSMSBatch_answer(BatchRun, resp))
    /\ UNCHANGED <<returned, serverFrame>>

\* The 2 s timer of sendSMS fires.
processSMSBatch_backoff ==
    /\ impl = "server"
    /\ bpc = "backoff"
    /\ SetBatchRun(sendSMS_backoff(BatchRun))
    /\ UNCHANGED <<returned, serverFrame>>

\* The 500 ms timer between two recipients fires.
processSMSBatch_wait ==
    /\ impl = "server"
    /\ bpc = "pace"
    /\ SetBatchRun(processSMSBatch_pace(BatchRun))
    /\ UNCHANGED <<returned, serverFrame>>

\* processSMSBatch: the loop is over, the caller has the results.
processSMSBatch_return ==
    /\ impl = "server"
    /\ bpc = "loop"
    /\ i >= Len(students)
    /\ bpc' = "done"
    /\ returned' = srv
    /\ UNCHANGED <<i, srv, retriesLeft, trace, serverFrame>>

\* The normalizer harness at rest.
NormIdle ==
    /\ raw = <<>>
    /\ normClient = Null
    /\ normServer = Null
    /\ normDone = TRUE

BatchIdle ==
    /\ impl = "none"
    /\ students = <<>>
    /\ messageTemplate = <<>>
    /\ i = 0
    /\ bpc = "idle"
    /\ srv = [sent |-> <<>>, failed |-> <<>>, total |-> 0]
    /\ retriesLeft = 0
    /\ trace = <<>>
    /\ returned = NoValue

Init == NormIdle /\ BatchInit

Next ==
    \/ processSMSBatch_step
    \/ processSMSBatch_request
    \/ processSMSBatch_backoff
    \/ processSMSBatch_wait
    \/ processSMSBatch_return
    \/ \E p \in Procs : sendBulkSMS_loop(p)
    \/ \E p \in Procs : sendSMSToStudent_format(p)
    \/ \E p \in Procs : sendSMSToStudent_create(p)
    \/ \E p \in Procs : sendSMSToStudent_send(p)
    \/ \E p \in Procs : sendSMSToStudent_update(p)
    \/ \E p \in Procs : sendBulkSMS_tally(p)
    \/ \E p \in Procs : sendBulkSMS_catch(p)
    \/ \E p \in Procs : sendBulkSMS_return(p)

Spec == Init /\ [][Next]_vars

-----------------------------------------------------------------------------
(* Client: single sends and retries (useSMSManagement, SMSService.retrySMS) *)

\* Most calls (sends and retries) started in one behaviour.
MaxCalls == 3

MaxRetryError == "Maximum retry attempts reached"
NotFoundError == "SMS record not found"

\* The students the admin may send to: one with a valid phone, one with a
\* word as phone.
Roster == << Student(1, PhoneValid1), Student(2, PhoneInvalidWord) >>

CallsStarted == Len(EventsOf("call"))

\* useSMSManagement.sendSMSToStudent (part_002:108-125) calling
\* SMSService.sendSMSToStudent(studentId, student.phone, message).
useSMS_sendSMSToStudent(p) ==
    /\ cpc[p] = "idle"
    /\ CallsStarted < MaxCalls
    /\ \E s \in 1..Len(Roster) :
         /\ loc' = [loc EXCEPT ![p] =
                       [IdleLocals EXCEPT !.op = "send",
                                          !.studentId = Roster[s].id,
                                          !.phoneNumber = Roster[s].phone,
                                          !.message = messageTemplate,
                                          !.recordId = 0]]
         /\ trace' = Append(trace, Ev("call", CallsStarted + 1, <<>>, ""))
    /\ SetPc(p, "sts_format")
    /\ UNCHANGED <<sms_records, bulk, i, returned, bpc, clientFrame, gatewaySends>>

\* useSMSManagement.sendSMSToStudent: SMSService.sendSMSToStudent returned
\* (part_002:127-154).
useSMS_sendReturned(p) ==
    /\ cpc[p] = "sts_return"
    /\ loc[p].op = "send"
    /\ loc' = [loc EXCEPT ![p] = IdleLocals]
    /\ SetPc(p, "idle")
    /\ UNCHANGED <<sms_records, bulk, trace, i, returned, bpc, clientFrame, gatewaySends>>

\* The caller's frame after retrySMS read the record: the values it passes on
\* to sendSMSToStudent are the record's.  op is "retry" for a single retry and
\* "sweep" for a retry made by a retry-all loop.
RetryFrame(op, recordId, record) ==
    [IdleLocals EXCEPT !.op = op,
                       !.recordId = recordId,
                       !.attempts = record.attempts,
                       !.status = record.status,
                       !.studentId = record.student_id,
                       !.phoneNumber = record.phone_number,
                       !.message = record.message]

\* retrySMS that contacts the gateway whatever the record's attempts.
retrySMS_read_noCeiling(p, op, recordId) ==
    \E fetched \in BOOLEAN :
         IF ~fetched THEN
             /\ loc' = [loc EXCEPT ![p] =
                           [IdleLocals EXCEPT !.op = op,
                                              !.recordId = recordId,
                                              !.ret = Ret(FALSE, 0, NotFoundError)]]
             /\ SetPc(p, "retry_return")
         ELSE
             /\ loc' = [loc EXCEPT ![p] = RetryFrame(op, recordId, sms_records[recordId])]
             /\ SetPc(p, "retry_mark")

\* SMSService.retrySMS (smsService.ts:353-371): load the record; return an
\* error if it cannot be read or if its attempts reached MAX_RETRIES.
retrySMS_read(p, op, recordId) ==
    \E fetched \in BOOLEAN :
         IF ~fetched THEN
             /\ loc' = [loc EXCEPT ![p] =
                           [IdleLocals EXCEPT !.op = op,
                                              !.recordId = recordId,
                                              !.ret = Ret(FALSE, 0, NotFoundError)]]
             /\ SetPc(p, "retry_return")
         ELSE IF sms_records[recordId].attempts >= MAX_RETRIES THEN
             /\ loc' = [loc EXCEPT ![p] =
                           [RetryFrame(op, recordId, sms_records[recordId])
                               EXCEPT !.ret = Ret(FALSE, 0, MaxRetryError)]]
             /\ SetPc(p, "retry_return")
         ELSE
             /\ loc' = [loc EXCEPT ![p] = RetryFrame(op, recordId, sms_records[recordId])]
             /\ SetPc(p, "retry_mark")

\* useSMSManagement.retrySMS (part_002:204-209) calling SMSService.retrySMS
\* for one record of the table.
retrySMS_load(p) ==
    /\ cpc[p] = "idle"
    /\ CallsStarted < MaxCalls
    /\ trace' = Append(trace, Ev("call", CallsStarted + 1, <<>>, ""))
    /\ \E recordId \in 1..Len(sms_records) : retrySMS_read(p, "retry", recordId)
    /\ UNCHANGED <<sms_records, bulk, i, returned, bpc, clientFrame, gatewaySends>>

\* await this.updateSMSRecord(recordId, 'retry'), then the call of
\* sendSMSToStudent with the record's stored values (smsService.ts:373-382).
retrySMS_mark(p) ==
    /\ cpc[p] = "retry_mark"
    /\ LET updated == updateSMSRecord(sms_records, loc[p].recordId,
                                      "retry", UndefStr, UndefStr)
       IN /\ sms_records' = updated.table
          /\ loc' = [loc EXCEPT ![p].writes = @ + 1,
                                ![p].stored = IF updated.ok THEN @ + 1 ELSE @]
    /\ trace' = Log(<<Ev("write", loc[p].idx, <<>>, "retry")>>)
    /\ SetPc(p, "sts_format")
    /\ UNCHANGED <<bulk, i, returned, bpc, clientFrame, gatewaySends>>

\* return result (smsService.ts:384).
retrySMS_return(p) ==
    /\ cpc[p] = "sts_return"
    /\ loc[p].op \in {"retry", "sweep"}
    /\ loc' = [loc EXCEPT ![p].ret = loc[p].stsRet]
    /\ SetPc(p, "retry_return")
    /\ UNCHANGED <<sms_records, bulk, trace, i, returned, bpc, clientFrame, gatewaySends>>

\* useSMSManagement.retrySMS after SMSService.retrySMS returned
\* (part_002:211-238).
useSMS_retryReturned(p) ==
    /\ cpc[p] = "retry_return"
    /\ loc[p].op = "retry"
    /\ loc' = [loc EXCEPT ![p] = IdleLocals]
    /\ SetPc(p, "idle")
    /\ UNCHANGED <<sms_records, bulk, trace, i, returned, bpc, clientFrame, gatewaySends>>

-----------------------------------------------------------------------------
(* Client: retry all failed (useSMSManagement.retryAllFailedSMS,             *)
(* SMSService.retryAllFailedSMS)                                             *)

RECURSIVE Descending(_)
\* The elements of a set of numbers, largest first (order by created_at
\* descending: a row's id is its insertion rank).
Descending(S) ==
    IF S = {} THEN <<>>
    ELSE LET m == CHOOSE x \in S : \A y \in S : y <= x
         IN <<m>> \o Descending(S \ {m})

\* The rows retry-all selects: status failed and attempts below MAX_RETRIES,
\* of one student or (scope 0) of all (smsService.ts:336-337, 401-404).
Retryable(table, scope) ==
    { r \in 1..Len(table) :
        /\ table[r].status = "failed"
        /\ table[r].attempts < MAX_RETRIES
        /\ (scope = 0 \/ table[r].student_id = scope) }

\* Retry-all that also selects the rows at the ceiling.
retryAll_start_noFilter(p) ==
    /\ cpc[p] = "idle"
    /\ CallsStarted < MaxCalls
    /\ trace' = Append(trace, Ev("call", CallsStarted + 1, <<>>, ""))
    /\ \E scope \in {0} \cup { Roster[s].id : s \in 1..Len(Roster) },
          fetched \in BOOLEAN :
         LET all == { r \in 1..Len(sms_records) :
                        /\ sms_records[r].status = "failed"
                        /\ (scope = 0 \/ sms_records[r].student_id = scope) }
             selected == IF fetched THEN Descending(all) ELSE <<>>
         IN /\ sweep' = [sweep EXCEPT ![p] =
                           [IdleSweep EXCEPT !.scope = scope,
                                             !.fetched = fetched,
                                             !.selected = selected]]
            /\ SetPc(p, IF selected = <<>> THEN "sweep_return" ELSE "sweep_loop")
    /\ UNCHANGED <<sms_records, loc, bulk, i, returned, bpc, normVars, batchInputs, srv, retriesLeft, gatewaySends, upd, api, notifyVars>>

\* The start of a retry-all: the failed records are read, all of them
\* (useSMSManagement.retryAllFailedSMS, part_002:242-259, through
\* getFailedSMSRecords, smsService.ts:328-350) or one student's
\* (SMSService.retryAllFailedSMS, smsService.ts:395-408).  A failed read
\* gives the empty list.
retryAll_start(p) ==
    /\ cpc[p] = "idle"
    /\ CallsStarted < MaxCalls
    /\ trace' = Append(trace, Ev("call", CallsStarted + 1, <<>>, ""))
    /\ \E scope \in {0} \cup { Roster[s].id : s \in 1..Len(Roster) },
          fetched \in BOOLEAN :
         LET selected == IF fetched THEN Descending(Retryable(sms_records, scope))
                                    ELSE <<>>
         IN /\ sweep' = [sweep EXCEPT ![p] =
                           [IdleSweep EXCEPT !.scope = scope,
                                             !.fetched = fetched,
                                             !.selected = selected]]
            /\ SetPc(p, IF selected = <<>> THEN "sweep_return" ELSE "sweep_loop")
    /\ UNCHANGED <<sms_records, loc, bulk, i, returned, bpc, normVars, batchInputs, srv, retriesLeft, gatewaySends, upd, api, notifyVars>>

\* for (const record of failedRecords): result = await retrySMS(record.id)
\* (part_002:261-262, smsService.ts:410-411), up to the record being read.
retryAll_next(p) ==
    /\ cpc[p] = "sweep_loop"
    /\ LET recordId == sweep[p].selected[sweep[p].pos + 1]
       IN /\ retrySMS_read(p, "sweep", recordId)
          /\ sweep' = [sweep EXCEPT ![p].retried = Append(@, recordId)]
    /\ UNCHANGED <<sms_records, bulk, trace, i, returned, bpc, normVars, batchInputs, srv, retriesLeft, gatewaySends, upd, api, notifyVars>>

\* The retry returned: count it, keep its error, wait 1000 ms, and go on or
\* return the summary (part_002:263-285, smsService.ts:412-430).
retryAll_tally(p) ==
    /\ cpc[p] = "retry_return"
    /\ loc[p].op = "sweep"
    /\ LET result == loc[p].ret
           after == [sweep[p] EXCEPT
                        !.pos = @ + 1,
                        !.successful = IF result.success THEN @ + 1 ELSE @,
                        !.failed = IF result.success THEN @ ELSE @ + 1,
                        !.errors = IF ~result.success /\ result.error # UndefStr
                                       THEN Append(@, result.error) ELSE @]
       IN IF after.pos < Len(after.selected)
              THEN /\ sweep' = [sweep EXCEPT ![p] = after]
                   /\ SetPc(p, "sweep_loop")
              ELSE /\ sweep' = [sweep EXCEPT ![p] =
                                   [after EXCEPT !.total = Len(after.selected)]]
                   /\ SetPc(p, "sweep_return")
    /\ loc' = [loc EXCEPT ![p] = IdleLocals]
    /\ UNCHANGED <<sms_records, bulk, trace, i, returned, bpc, normVars, batchInputs, srv, retriesLeft, gatewaySends, upd, api, notifyVars>>

\* The caller has the summary {total, successful, failed, errors}
\* (part_002:254, 285; smsService.ts:425-430).
retryAll_returned(p) ==
    /\ cpc[p] = "sweep_return"
    /\ sweep' = [sweep EXCEPT ![p] = IdleSweep]
    /\ SetPc(p, "idle")
    /\ UNCHANGED <<sms_records, loc, bulk, trace, i, returned, bpc, normVars, batchInputs, srv, retriesLeft, gatewaySends, upd, api, notifyVars>>

\* A row found in the table when the admin page is opened.  The table is
\* kept by the database, outside the program, and open to every
\* authenticated client (sql:49-54); the program reads what it finds
\* (smsService.ts:328-350, 356-367).  The rows are rows the schema admits
\* (sql:27-39) for a student of the roster, with the phone
\* sendSMSToStudent stores, a gateway id when sent and an error message
\* when failed.
FoundRow(s, status, attempts) ==
    [ NewSMSRecord(Roster[s].id, formatPhoneNumber(Roster[s].phone), TemplateHi,
                   status,
                   IF status = "sent" THEN "gw-id" ELSE UndefStr,
                   IF status = "failed" THEN "500" ELSE UndefStr)
        EXCEPT !.attempts = attempts ]

\* The tables the admin page may find: no row; two failed rows below the
\* ceiling; a failed row at the ceiling; a sent row; a row left in retry.
FoundTables ==
    { <<>>,
      <<FoundRow(1, "failed", 1), FoundRow(2, "failed", 2)>>,
      <<FoundRow(1, "failed", MAX_RETRIES)>>,
      <<FoundRow(1, "sent", 1)>>,
      <<FoundRow(2, "retry", 2)>> }

\* The sends a found table stands for: as many for a row as its attempts.
SendsBehind(table) == [r \in 1..Len(table) |-> table[r].attempts]

\* The admin page with no call in flight.
InitRetry ==
    /\ NormIdle
    /\ impl = "retry"
    /\ students = <<>>
    /\ messageTemplate = TemplateHi
    /\ i = 0
    /\ bpc = "idle"
    /\ srv = [sent |-> <<>>, failed |-> <<>>, total |-> 0]
    /\ retriesLeft = 0
    /\ trace = <<>>
    /\ returned = NoValue
    /\ cpc = [p \in Procs |-> "idle"]
    /\ loc = [p \in Procs |-> IdleLocals]
    /\ sweep = [p \in Procs |-> IdleSweep]
    /\ api = IdleApi
    /\ NotifyIdle
    /\ upd = [p \in Procs |-> IdleUpd]
    /\ bulk = [sent |-> 0, failed |-> 0, results |-> <<>>]
    /\ onProgress = FALSE
    /\ apiKey = KeySet
    /\ sms_records \in FoundTables
    /\ gatewaySends = SendsBehind(sms_records)

\* No call is in flight.
AllIdle == \A q \in Procs : cpc[q] = "idle"

\* Single sends and retries, one call after the other.
NextRetry ==
    \/ \E p \in Procs : AllIdle /\ useSMS_sendSMSToStudent(p)
    \/ \E p \in Procs : sendSMSToStudent_format(p)
    \/ \E p \in Procs : sendSMSToStudent_invalid(p)
    \/ \E p \in Procs : sendSMSToStudent_create(p)
    \/ \E p \in Procs : sendSMSToStudent_send(p)
    \/ \E p \in Procs : sendSMSToStudent_update(p)
    \/ \E p \in Procs : useSMS_sendReturned(p)
    \/ \E p \in Procs : AllIdle /\ retrySMS_load(p)
    \/ \E p \in Procs : retrySMS_mark(p)
    \/ \E p \in Procs : retrySMS_return(p)
    \/ \E p \in Procs : useSMS_retryReturned(p)
    \/ \E p \in Procs : AllIdle /\ retryAll_start(p)
    \/ \E p \in Procs : retryAll_next(p)
    \/ \E p \in Procs : retryAll_tally(p)
    \/ \E p \in Procs : retryAll_returned(p)

SpecRetry == InitRetry /\ [][NextRetry]_vars

-----------------------------------------------------------------------------
(* Store: calls of updateSMSRecord on one record                             *)

\* Most calls of updateSMSRecord one caller makes in one behaviour.
MaxUpdates == 2

\* updateSMSRecord(recordId, status, sid, errorMessage) is called and sends
\* its update request (smsService.ts:152-169).
updateSMSRecord_call(p) ==
    /\ cpc[p] = "idle"
    /\ upd[p].calls < MaxUpdates
    /\ \E data \in UpdateOutcomes :
         /\ (upd[p].calls > 0 => data = upd[p].data)
         /\ upd' = [upd EXCEPT ![p] =
                       [@ EXCEPT !.data = data,
                                 !.before = sms_records[1].attempts,
                                 !.first = IF upd[p].calls = 0
                                               THEN sms_records[1].attempts ELSE @,
                                 !.ok = FALSE,
                                 !.calls = @ + 1]]
    /\ SetPc(p, "upd_request")
    /\ UNCHANGED <<sms_records, storeFrame>>

\* The store answers the request and updateSMSRecord returns
\* (smsService.ts:171-180).
updateSMSRecord_return(p) ==
    /\ cpc[p] = "upd_request"
    /\ LET updated == updateSMSRecord(sms_records, 1, upd[p].data[1],
                                      upd[p].data[2], upd[p].data[3])
       IN /\ sms_records' = updated.table
          /\ upd' = [upd EXCEPT ![p].ok = updated.ok]
    /\ SetPc(p, "upd_done")
    /\ UNCHANGED storeFrame

\* The caller goes on after the call.
updateSMSRecord_returned(p) ==
    /\ cpc[p] = "upd_done"
    /\ SetPc(p, "idle")
    /\ UNCHANGED <<sms_records, upd, storeFrame>>

\* One record, as a dispatch created it or as it is found with a failed
\* send, and two callers about to update it.
InitStore ==
    /\ NormIdle
    /\ BatchIdle
    /\ onProgress = FALSE
    /\ apiKey = KeySet
    /\ bulk = [sent |-> 0, failed |-> 0, results |-> <<>>]
    /\ loc = [p \in Procs |-> IdleLocals]
    /\ sweep = [p \in Procs |-> IdleSweep]
    /\ gatewaySends = EmptyBag
    /\ api = IdleApi
    /\ NotifyIdle
    /\ cpc = [p \in Procs |-> "idle"]
    /\ \E attempts \in 1..2 :
         /\ upd = [p \in Procs |-> [IdleUpd EXCEPT !.base = attempts]]
         /\ sms_records =
             << [ NewSMSRecord(1, formatPhoneNumber(PhoneValid1), TemplateHi,
                               IF attempts = 1 THEN "pending" ELSE "failed",
                               UndefStr,
                               IF attempts = 1 THEN UndefStr ELSE "500")
                    EXCEPT !.attempts = attempts ] >>

NextStore ==
    \/ \E p \in Procs : updateSMSRecord_call(p)
    \/ \E p \in Procs : updateSMSRecord_return(p)
    \/ \E p \in Procs : updateSMSRecord_returned(p)

SpecStore == InitStore /\ [][NextStore]_vars

-----------------------------------------------------------------------------
(* HTTP: the loop over the students of the notification server (part_000)   *)

\* formatPhoneNumber of the notification server (part_000:28-48): there is
\* no validation, every truthy phone gives a string.
notification_formatPhoneNumber(phone) ==
    IF phone = <<>> \/ phone = Null THEN Null
    ELSE IF phone = NonString THEN TypeError
    ELSE LET cleaned == StripNonDigits(phone) IN
         IF StartsWith(cleaned, <<"0">>) THEN CountryCode \o Substring1(cleaned)
         ELSE IF StartsWith(cleaned, PlusCountryCode) THEN Substring1(cleaned)
         ELSE IF ~StartsWith(cleaned, CountryCode) THEN CountryCode \o cleaned
         ELSE cleaned

\* What the gateway answers to one HTTP request of the notification
\* server, which reads response.data.data?.id of a 2xx answer inside its try
\* (part_000:71-76, 115-120): "200" is a 2xx answer whose body is not null.
NotificationHttp == ServerHttp \cup {NullBody}

\* sendSMS(phoneNumber, message) of the notification server (part_000:50-92)
\* when its request is answered with resp: no retry, every failure returned;
\* a 2xx answer with the body null is a failure too, the catch returns the
\* message of the TypeError.
notification_sendSMS(phoneNumber, message, resp) ==
    IF resp = "200" THEN [success |-> TRUE, error |-> ""]
    ELSE IF resp = NullBody THEN [success |-> FALSE, error |-> NullDataError]
    ELSE [success |-> FALSE, error |-> resp]

\* sendBulkSMS(phoneNumbers, message) of the notification server
\* (part_000:94-136) when its one request for all the phones is answered.
notification_sendBulkSMS(phoneNumbers, message, resp) ==
    IF resp = "200" THEN [success |-> TRUE, error |-> ""]
    ELSE IF resp = NullBody THEN [success |-> FALSE, error |-> NullDataError]
    ELSE [success |-> FALSE, error |-> resp]

MoshoodSuffix ==
    <<" ", "-", " ", "M", "o", "s", "h", "o", "o", "d", " ", "A", "b", "i",
      "o", "l", "a", " ", "P", "o", "l", "y", "t", "e", "c", "h", "n", "i", "c">>

\* The message of the notification server for its results (part_000:205).
ResultsMessage(student) ==
    <<"H", "e", "l", "l", "o", " ">>
        \o JsToString(student.first_name) \o
    <<",", " ", "y", "o", "u", "r", " ", "l", "a", "t", "e", "s",
      "t", " ", "e", "x", "a", "m", " ", "r", "e", "s", "u", "l",
      "t", "s", " ", "h", "a", "v", "e", " ", "b", "e", "e", "n",
      " ", "p", "u", "b", "l", "i", "s", "h", "e", "d", "!", " ",
      "L", "o", "g", " ", "i", "n", " ", "t", "o", " ", "E", "d",
      "u", "N", "o", "t", "i", "f", "y", " ", "t", "o", " ", "v",
      "i", "e", "w", " ", "y", "o", "u", "r", " ", "r", "e", "s",
      "u", "l", "t", "s", ".">> \o MoshoodSuffix

\* The message of a run of the notification server: the results message, or
\* `Hello ${student.first_name}, ${message} - Moshood Abiola Polytechnic`
\* (part_000:339).
notification_message(run, student) ==
    IF run.kind = "notify-results" THEN ResultsMessage(student)
    ELSE <<"H", "e", "l", "l", "o", " ">> \o JsToString(student.first_name)
             \o <<",", " ">> \o run.template \o MoshoodSuffix

\* The loop over the students (part_000:196-205, 330-341) from recipient
\* run.i up to its next await: a student without a phone is noted and
\* skipped (continue, or the catch for an exception); for the first other
\* student sendSMS makes its request.
RECURSIVE notification_loop(_)
notification_loop(run) ==
    IF run.i >= Len(run.students) THEN [run EXCEPT !.pc = "loop"]
    ELSE LET student == run.students[run.i + 1]
             phoneNumber == notification_formatPhoneNumber(student.phone)
         IN IF phoneNumber = TypeError
                THEN notification_loop(FailedPush(run, student.phone, TypeErrorMessage))
            ELSE IF JsFalsy(phoneNumber)
                THEN notification_loop(FailedPush(run, student.phone, "No valid phone number"))
            ELSE [run EXCEPT !.pc = "request",
                             !.events = Append(@, Ev("send", run.i, phoneNumber, ""))]

\* The request of sendSMS is answered (part_000:207-226, 343-354): the
\* student is counted as sent or noted as failed, and the 1 s timer is
\* started, after the last student too.
notification_answer(run, resp) ==
    LET student == run.students[run.i + 1]
        phoneNumber == notification_formatPhoneNumber(student.phone)
        message == notification_message(run, student)
        smsResult == notification_sendSMS(phoneNumber, message, resp)
        heard == [run EXCEPT !.pc = "pace",
                             !.events = Append(@, Ev("request", run.i, phoneNumber, resp))]
    IN IF smsResult.success
           THEN [heard EXCEPT !.sent =
                    Append(@, [student |-> StudentName(student),
                               phone |-> phoneNumber, message |-> message])]
           ELSE [heard EXCEPT !.failed =
                    Append(@, [student |-> StudentName(student),
                               phone |-> phoneNumber, error |-> smsResult.error])]

\* The 1 s timer fires: the loop goes on (part_000:226, 354).
notification_pace(run) ==
    notification_loop([run EXCEPT !.i = @ + 1,
                                  !.events = Append(@, Ev("pace", run.i, <<>>, ""))])

\* What a run that waits can do next: the gateway's answer to its request,
\* or its timer firing.
RunNext(run) ==
    IF run.kind = "sms-server"
        THEN CASE run.pc = "request" ->
                      { processSMSBatch_answer(run, resp) : resp \in ServerHttp }
               [] run.pc = "backoff" -> { sendSMS_backoff(run) }
               [] run.pc = "pace" -> { processSMSBatch_pace(run) }
               [] OTHER -> {}
    ELSE CASE run.pc = "request" ->
                  { notification_answer(run, resp) : resp \in NotificationHttp }
           [] run.pc = "pace" -> { notification_pace(run) }
           [] OTHER -> {}

\* The loop of a run is over.
RunOver(run) == run.pc = "loop" /\ run.i >= Len(run.students)

\* Where a handler waits after a step of its loop: for the loop, or, the
\* loop over, for the insert of the notifications it has issued.
AfterLoop(run) == IF RunOver(run) THEN "insert" ELSE "batch"

\* The requests a run has made to the gateway.
RequestsOf(run) ==
    Len(SelectSeq(run.events, LAMBDA e : e.ev \in {"send", "backoff"}))

-----------------------------------------------------------------------------
(* HTTP: POST /api/notify-custom, /api/test-sms and /api/notify-bulk         *)

\* The two express servers of the repository: the SMS server (part_001) and
\* the notification server (part_000).
ApiServers == {"sms-server", "notification-server"}

\* A value of studentIds that is not an array.
NotAnArray == <<"not-an-array">>

\* The values of the fields of req.body: Undefined is a missing field.
\* Ids are given as they are written in the JSON body; student 3 is not in
\* the table students.
ApiStudentIds == {Undefined, NotAnArray, <<>>, <<"1">>, <<"1", "2">>, <<"3">>}
IdText == <<"1", "2", "3">>
ApiTitles == {Undefined, <<"N", "e", "w", "s">>}
ApiMessages == {Undefined, <<>>, <<"R", "e", "s", "u", "l", "t", "s", " ", "o", "u", "t">>}
ApiPhones == {Undefined, PhoneValid1, PhoneInvalidWord}

ApiBodies ==
    [studentIds : ApiStudentIds, title : ApiTitles,
     message : ApiMessages, phoneNumber : ApiPhones, phone : ApiPhones]

\* A JavaScript argument as the normalizers of the model take it: a missing
\* field is falsy.
JsArg(x) == IF x = Undefined THEN Null ELSE x

\* A row of the table students as a query returns it: the columns of the
\* table, no score and no calculated CGPA.
StudentRow(s) ==
    [Roster[s] EXCEPT !.total_score = Undefined, !.calculatedCGPA = Undefined]

\* from('students').select('*').in('id', ids): the rows of the table
\* students whose id is in ids.
StudentsIn(ids) ==
    IF JsFalsy(ids) \/ ids = NotAnArray THEN <<>>
    ELSE SelectSeq([s \in 1..Len(Roster) |-> StudentRow(s)], LAMBDA st : \E k \in 1..Len(ids) : ids[k] = IdText[st.id])

\* `Hello {firstName}, ${message} - MAPOLY` (part_001:383)
CustomTemplate(message) ==
    <<"H", "e", "l", "l", "o", " ">> \o PhFirstName \o <<",", " ">> \o message
        \o <<" ", "-", " ", "M", "A", "P", "O", "L", "Y">>

\* The response res.status(status).json({success, smsSent, ...}).
Respond(status, success, smsSent) ==
    [api EXCEPT !.pc = "responded", !.status = status,
                !.success = success, !.smsSent = smsSent]

apiFrame == <<normVars, batchVars, clientVars, notifyVars>>

\* POST /api/notify-custom of the SMS server (part_001:348-369) up to its
\* first await: the check of title and message, then the query for the
\* students.
sms_notify_custom ==
    /\ api.pc = "received"
    /\ api.server = "sms-server"
    /\ api.endpoint = "notify-custom"
    /\ api' = IF JsFalsy(api.body.title) \/ JsFalsy(api.body.message)
                  THEN Respond(400, FALSE, 0)
                  ELSE [api EXCEPT !.pc = "students"]
    /\ UNCHANGED apiFrame

\* POST /api/notify-custom of the notification server (part_000:284-308) up
\* to its first await.
notification_notify_custom ==
    /\ api.pc = "received"
    /\ api.server = "notification-server"
    /\ api.endpoint = "notify-custom"
    /\ LET body == api.body IN
       api' = IF JsFalsy(body.studentIds) \/ body.studentIds = NotAnArray
                    \/ Len(body.studentIds) = 0
                  THEN Respond(400, FALSE, 0)
              ELSE IF JsFalsy(body.title) \/ JsFalsy(body.message)
                  THEN Respond(400, FALSE, 0)
              ELSE [api EXCEPT !.pc = "students"]
    /\ UNCHANGED apiFrame

\* POST /api/notify-bulk (part_000:406-430) up to its first await.
notification_notify_bulk ==
    /\ api.pc = "received"
    /\ api.server = "notification-server"
    /\ api.endpoint = "notify-bulk"
    /\ LET body == api.body IN
       api' = IF JsFalsy(body.studentIds) \/ body.studentIds = NotAnArray
                    \/ Len(body.studentIds) = 0
                  THEN Respond(400, FALSE, 0)
              ELSE IF JsFalsy(body.message)
                  THEN Respond(400, FALSE, 0)
              ELSE [api EXCEPT !.pc = "students"]
    /\ UNCHANGED apiFrame

\* The query for the students is answered (part_001:371-385,
\* part_000:310-341): an error is thrown to the catch of the handler; with
\* no student found the handler responds; otherwise the loop over the
\* students starts and runs up to its first await.  With a studentIds that
\* is not an array the SMS server's query fails or finds nothing.
notify_custom_students ==
    /\ api.pc = "students"
    /\ api.endpoint = "notify-custom"
    /\ \E studentsError \in BOOLEAN :
         LET found == StudentsIn(api.body.studentIds)
             run == IF api.server = "sms-server"
                        THEN processSMSBatch_loop(
                                 ServerRun("sms-server", found,
                                           CustomTemplate(api.body.message)))
                        ELSE notification_loop(
                                 ServerRun("notify-custom", found, api.body.message))
         IN api' = IF studentsError THEN Respond(500, FALSE, 0)
                   ELSE IF found = <<>> THEN Respond(200, TRUE, 0)
                   ELSE [api EXCEPT !.pc = AfterLoop(run), !.run = run]
    /\ UNCHANGED apiFrame

\* The loop over the students takes a step: the gateway answers a request
\* or a timer fires.  When that ends the loop the notifications are
\* inserted (part_001:387-396, part_000:360-374).
notify_custom_await ==
    /\ api.pc = "batch"
    /\ \E next \in RunNext(api.run) :
         api' = [api EXCEPT !.pc = AfterLoop(next), !.run = next]
    /\ UNCHANGED apiFrame

\* The insert is answered, whatever the answer, and the response is sent
\* (part_001:398-410, part_000:376-388).
notify_custom_respond ==
    /\ api.pc = "insert"
    /\ api' = Respond(200, TRUE, Len(api.run.sent))
    /\ UNCHANGED apiFrame

\* The query of /api/notify-bulk is answered (part_000:432-464): the phones
\* that are not null go to the gateway in one request.
notification_notify_bulk_students ==
    /\ api.pc = "students"
    /\ api.endpoint = "notify-bulk"
    /\ \E studentsError \in BOOLEAN :
         LET found == StudentsIn(api.body.studentIds)
             phoneNumbers ==
                 SelectSeq([k \in 1..Len(found) |->
                               notification_formatPhoneNumber(found[k].phone)],
                           LAMBDA phone : phone # Null)
         IN api' = IF studentsError THEN Respond(500, FALSE, 0)
                   ELSE IF found = <<>> THEN Respond(200, TRUE, 0)
                   ELSE IF phoneNumbers = <<>> THEN Respond(200, TRUE, 0)
                   ELSE [api EXCEPT !.pc = "request",
                                    !.phones = phoneNumbers,
                                    !.gateway = @ + 1]
    /\ UNCHANGED apiFrame

\* The request of sendBulkSMS is answered (part_000:465-481): smsSent is the
\* number of phones.
notification_notify_bulk_request ==
    /\ api.pc = "request"
    /\ api.endpoint = "notify-bulk"
    /\ \E resp \in NotificationHttp :
         LET smsResult == notification_sendBulkSMS(
                              api.phones, api.body.message \o MoshoodSuffix, resp)
         IN api' = IF smsResult.success
                       THEN Respond(200, TRUE, Len(api.phones))
                       ELSE Respond(200, FALSE, 0)
    /\ UNCHANGED apiFrame

\* POST /api/test-sms of the SMS server (part_001:426-441) up to its first
\* await: the field phoneNumber is normalized, sendSMS makes its request.
sms_test_sms ==
    /\ api.pc = "received"
    /\ api.server = "sms-server"
    /\ api.endpoint = "test-sms"
    /\ LET phone == formatPhone(JsArg(api.body.phoneNumber)) IN
       api' = IF phone = Null THEN Respond(400, FALSE, 0)
              ELSE [api EXCEPT !.pc = "request", !.phones = <<phone>>,
                               !.retries = DefaultRetries, !.gateway = @ + 1]
    /\ UNCHANGED apiFrame

\* The request of sendSMS is answered (part_001:441-447, 72-101).
sms_test_sms_request ==
    /\ api.pc = "request"
    /\ api.server = "sms-server"
    /\ api.endpoint = "test-sms"
    /\ \E resp \in ServerHttp :
         LET result == sendSMS(api.phones[1], api.body.message, api.retries, resp)
         IN api' = IF result.retry THEN [api EXCEPT !.pc = "backoff"]
                   ELSE IF result.success THEN Respond(200, TRUE, 1)
                   ELSE Respond(500, FALSE, 0)
    /\ UNCHANGED apiFrame

\* The 2 s timer of sendSMS fires and the next request is made
\* (part_001:96-97).
sms_test_sms_backoff ==
    /\ api.pc = "backoff"
    /\ api' = [api EXCEPT !.pc = "request", !.retries = @ - 1, !.gateway = @ + 1]
    /\ UNCHANGED apiFrame

\* POST /api/test-sms of the notification server (part_000:492-514) up to
\* its first await: the fields phone and message are required.
notification_test_sms ==
    /\ api.pc = "received"
    /\ api.server = "notification-server"
    /\ api.endpoint = "test-sms"
    /\ LET phoneNumber == notification_formatPhoneNumber(JsArg(api.body.phone)) IN
       api' = IF JsFalsy(api.body.phone) \/ JsFalsy(api.body.message)
                  THEN Respond(400, FALSE, 0)
              ELSE IF JsFalsy(phoneNumber) THEN Respond(400, FALSE, 0)
              ELSE [api EXCEPT !.pc = "request", !.phones = <<phoneNumber>>,
                               !.gateway = @ + 1]
    /\ UNCHANGED apiFrame

\* The one request of sendSMS is answered (part_000:514-530): a failed send
\* is answered with status 200 and success false.
notification_test_sms_request ==
    /\ api.pc = "request"
    /\ api.server = "notification-server"
    /\ api.endpoint = "test-sms"
    /\ \E resp \in NotificationHttp :
         LET smsResult == notification_sendSMS(api.phones[1], api.body.message, resp)
         IN api' = IF smsResult.success THEN Respond(200, TRUE, 1)
                                        ELSE Respond(200, FALSE, 0)
    /\ UNCHANGED apiFrame

\* The requests the handler has made to the gateway.
GatewayRequests == api.gateway + RequestsOf(api.run)

\* A request has reached one of the handlers.
InitApi ==
    /\ NormIdle
    /\ BatchIdle
    /\ onProgress = FALSE
    /\ apiKey = KeySet
    /\ bulk = [sent |-> 0, failed |-> 0, results |-> <<>>]
    /\ sms_records = <<>>
    /\ loc = [p \in Procs |-> IdleLocals]
    /\ sweep = [p \in Procs |-> IdleSweep]
    /\ upd = [p \in Procs |-> IdleUpd]
    /\ gatewaySends = EmptyBag
    /\ cpc = [p \in Procs |-> "idle"]
    /\ NotifyIdle
    /\ \E server \in ApiServers,
          endpoint \in {"notify-custom", "test-sms", "notify-bulk"},
          body \in ApiBodies :
         /\ endpoint = "notify-bulk" => server = "notification-server"
         /\ endpoint = "notify-custom" =>
                body.phoneNumber = Undefined /\ body.phone = Undefined
         /\ endpoint = "notify-bulk" =>
                /\ body.phoneNumber = Undefined /\ body.phone = Undefined
                /\ body.title = Undefined
         /\ endpoint = "test-sms" =>
                body.studentIds = Undefined /\ body.title = Undefined
         /\ api = [IdleApi EXCEPT !.server = server, !.endpoint = endpoint,
                                  !.body = body, !.pc = "received"]

NextApi ==
    \/ sms_notify_custom
    \/ notification_notify_custom
    \/ notify_custom_students
    \/ notify_custom_await
    \/ notify_custom_respond
    \/ notification_notify_bulk
    \/ notification_notify_bulk_students
    \/ notification_notify_bulk_request
    \/ sms_test_sms
    \/ sms_test_sms_request
    \/ sms_test_sms_backoff
    \/ notification_test_sms
    \/ notification_test_sms_request

SpecApi == InitApi /\ [][NextApi]_vars

-----------------------------------------------------------------------------
(* Client: the same batch dispatched again (useSMSManagement.sendBulkSMS)    *)

\* Most batch dispatches of one behaviour, and most recipients of a batch
\* that is dispatched again.
MaxDispatches == 2
MaxRepeatRecipients == 1

\* The dispatches started after the first.
Redispatches == Len(EventsOf("call"))

\* useSMSManagement.sendBulkSMS (part_002:158-179) called once more with the
\* same students and the same message, after the dispatch before it returned.
useSMS_sendBulkSMS(p) ==
    /\ impl = "client"
    /\ bpc = "done"
    /\ cpc[p] = "idle"
    /\ p = "p1"
    /\ Len(students) > 0
    /\ Redispatches < MaxDispatches - 1
    /\ trace' = Append(trace, Ev("call", Redispatches + 1, <<>>, ""))
    /\ i' = 0
    /\ bulk' = [sent |-> 0, failed |-> 0, results |-> <<>>]
    /\ returned' = NoValue
    /\ bpc' = "loop"
    /\ loc' = [loc EXCEPT ![p] = IdleLocals]
    /\ SetPc(p, "bulk_loop")
    /\ UNCHANGED <<sms_records, clientFrame, gatewaySends>>

\* SMSService.sendBulkSMS(students, message) has been called for a short
\* list of students.
InitRepeat ==
    /\ NormIdle
    /\ BatchInit
    /\ impl = "client"
    /\ Len(students) <= MaxRepeatRecipients
    /\ messageTemplate = TemplateHi
    /\ ~onProgress

NextRepeat ==
    \/ \E p \in Procs : sendBulkSMS_loop(p)
    \/ \E p \in Procs : sendSMSToStudent_format(p)
    \/ \E p \in Procs : sendSMSToStudent_create(p)
    \/ \E p \in Procs : sendSMSToStudent_send(p)
    \/ \E p \in Procs : sendSMSToStudent_update(p)
    \/ \E p \in Procs : sendBulkSMS_tally(p)
    \/ \E p \in Procs : sendBulkSMS_catch(p)
    \/ \E p \in Procs : sendBulkSMS_return(p)
    \/ \E p \in Procs : useSMS_sendBulkSMS(p)

SpecRepeat == InitRepeat /\ [][NextRepeat]_vars

-----------------------------------------------------------------------------
(* Server: rendering of templates by processSMSBatch                         *)

\* Templates with no placeholder, with each placeholder once, and with one
\* placeholder twice.
TemplatePlain == <<"R", "e", "s", "u", "l", "t", "s", " ", "o", "u", "t">>
TemplateAll ==
    PhFirstName \o <<" ">> \o PhLastName \o <<" ">> \o PhScore \o <<" ">> \o PhCgpa
TemplateTwice == PhFirstName \o <<",", " ">> \o TemplateHi

RenderTemplates == { TemplatePlain, TemplateHi, TemplateAll, TemplateTwice }

\* A first name that reads as a replacement pattern, and a student of that
\* name.
DollarName == <<"$", "&">>
DollarStudent == [Student(1, PhoneValid1) EXCEPT !.first_name = DollarName]

\* processSMSBatch(students, messageTemplate) has been called.
InitRender ==
    /\ NormIdle
    /\ ClientIdle
    /\ impl = "server"
    /\ students \in StudentLists \cup {<<DollarStudent>>}
    /\ messageTemplate \in RenderTemplates
    /\ i = 0
    /\ bpc = "loop"
    /\ srv = [sent |-> <<>>, failed |-> <<>>, total |-> Len(students)]
    /\ retriesLeft = 0
    /\ trace = <<>>
    /\ returned = NoValue

NextRender ==
    \/ processSMSBatch_step
    \/ processSMSBatch_request
    \/ processSMSBatch_backoff
    \/ processSMSBatch_wait
    \/ processSMSBatch_return

SpecRender == InitRender /\ [][NextRender]_vars

-----------------------------------------------------------------------------
(* Client: overlapping retries of one record                                 *)

\* The admin page with no call in flight and a table that is not empty.
InitRace == InitRetry /\ sms_records # <<>>

\* Retries and retry-all loops of two callers, overlapping in every way.
NextRace ==
    \/ \E p \in Procs : retrySMS_load(p)
    \/ \E p \in Procs : retrySMS_mark(p)
    \/ \E p \in Procs : sendSMSToStudent_format(p)
    \/ \E p \in Procs : sendSMSToStudent_invalid(p)
    \/ \E p \in Procs : sendSMSToStudent_send(p)
    \/ \E p \in Procs : sendSMSToStudent_update(p)
    \/ \E p \in Procs : retrySMS_return(p)
    \/ \E p \in Procs : useSMS_retryReturned(p)
    \/ \E p \in Procs : retryAll_start(p)
    \/ \E p \in Procs : retryAll_next(p)
    \/ \E p \in Procs : retryAll_tally(p)
    \/ \E p \in Procs : retryAll_returned(p)

SpecRace == InitRace /\ [][NextRace]_vars

-----------------------------------------------------------------------------
(* HTTP: POST /api/notify-results                                            *)

\* The number of rows of the table results.
MaxResults == 2

\* The message template of the SMS server (part_001:281).
ResultsTemplate ==
    <<"H", "e", "l", "l", "o", " ", "{", "f", "i", "r", "s", "t",
      "N", "a", "m", "e", "}", ",", " ", "y", "o", "u", "r", " ",
      "r", "e", "s", "u", "l", "t", "s", " ", "a", "r", "e", " ",
      "r", "e", "a", "d", "y", "!", " ", "L", "a", "t", "e", "s",
      "t", " ", "S", "c", "o", "r", "e", ":", " ", "{", "s", "c",
      "o", "r", "e", "}", ",", " ", "C", "G", "P", "A", ":", " ",
      "{", "c", "g", "p", "a", "}", ".", " ", "C", "h", "e", "c",
      "k", " ", "y", "o", "u", "r", " ", "p", "o", "r", "t", "a",
      "l", " ", "f", "o", "r", " ", "d", "e", "t", "a", "i", "l",
      "s", ".", " ", "-", " ", "M", "A", "P", "O", "L", "Y">>

\* The total_score of a row of results: a score, 0, or none.
ScoreSamples == {NumberOf(<<"7", "5">>), Zero, Null}

\* The tables results the requests may find, the empty one included: every
\* row belongs to a student of the roster, is pending or published and
\* carries its total_score.
ResultTables ==
    UNION { [1..n -> [student : 1..Len(Roster),
                      status : {"pending", "published"},
                      total_score : ScoreSamples]] : n \in 0..MaxResults }

\* The ids of the pending results (part_001:217-224, part_000:143-150); the
\* students of the roster are active and have a phone.
PendingResults(table) == { r \in 1..Len(table) : table[r].status = "pending" }

\* The students of a set of results, each once, in the order of the table
\* students (part_001:217) or of their first result (part_000:178-184).
StudentsOf(table, ids, server) ==
    IF server = "sms-server"
        THEN SelectSeq([s \in 1..Len(Roster) |-> s],
                       LAMBDA s : \E r \in ids : table[r].student = s)
    ELSE LET first(s) == CHOOSE r \in ids :
                             /\ table[r].student = s
                             /\ \A o \in ids : table[o].student = s => r <= o
             owners == { table[r].student : r \in ids }
             RECURSIVE ordered(_)
             ordered(S) ==
                 IF S = {} THEN <<>>
                 ELSE LET s == CHOOSE x \in S :
                                   \A y \in S : first(x) <= first(y)
                      IN <<s>> \o ordered(S \ {s})
         IN ordered(owners)

\* res.json(...) / res.status(500).json(...) of the handler.
NotifyRespond(q, status, smsSent) ==
    [notify EXCEPT ![q].pc = "responded", ![q].status = status,
                   ![q].smsSent = smsSent]

\* What supabase.rpc('calculate_student_cgpa') may answer: a CGPA, no data,
\* or an exception (part_001:267-276).
CgpaAnswers == {NumberOf(<<"3", ".", "8">>), Null, TypeError}

\* The answer of a call that has not been answered.
Waiting == <<"waiting">>

\* cgpa || student.cgpa || 0, and student.cgpa || 0 in the catch
\* (part_001:268, 273).
CalculatedCGPA(student, answer) ==
    IF answer = TypeError THEN JsOr(student.cgpa, Zero)
    ELSE JsOr(answer, JsOr(student.cgpa, Zero))

\* A row of the select of the SMS server (part_001:217-224): the student
\* joined with its pending results, results!inner(id, total_score, ...), in
\* the order of the table.  total_score stands for results[0].total_score,
\* the score processSMSBatch reads (part_001:132).
JoinedStudent(table, resultIds, s) ==
    LET first == CHOOSE r \in resultIds :
                     /\ table[r].student = s
                     /\ \A o \in resultIds : table[o].student = s => r <= o
    IN [StudentRow(s) EXCEPT !.total_score = table[first].total_score]

\* studentsWithCGPA (part_001:264-277): { ...student, calculatedCGPA } for
\* every row of the select.
StudentsWithCGPA(table, resultIds, ids, answers) ==
    [k \in 1..Len(ids) |->
        [JoinedStudent(table, resultIds, ids[k]) EXCEPT
            !.calculatedCGPA =
                CalculatedCGPA(JoinedStudent(table, resultIds, ids[k]), answers[k])]]

\* The results that the SMS the run sends to its current student announces.
Announced(q, run) ==
    { r \in notify[q].resultIds : results[r].student = run.students[run.i + 1].id }

notifyFrame == <<normVars, batchVars, clientVars, api>>

\* A request arrives at one of the two servers; the handler runs up to its
\* first await, the query for the pending results (part_001:195-224,
\* part_000:138-150).  The SMS server refuses without an API key.
notifyResults_receive(q) ==
    /\ notify[q].pc = "idle"
    /\ \E server \in ApiServers :
         notify' = IF server = "sms-server" /\ apiKey = KeyUnset
                       THEN [NotifyRespond(q, 500, 0) EXCEPT
                                ![q].server = server, ![q].origin = "http"]
                       ELSE [notify EXCEPT ![q].pc = "select",
                                           ![q].server = server,
                                           ![q].origin = "http"]
    /\ UNCHANGED <<results, delivered, publish, notifyFrame>>

\* The query is answered (part_001:226-253, part_000:152-177): the pending
\* results are read and the update is issued.
notifyResults_select(q) ==
    /\ notify[q].pc = "select"
    /\ \E error \in BOOLEAN :
         LET ids == PendingResults(results) IN
         notify' = IF error THEN NotifyRespond(q, 500, 0)
                   ELSE IF ids = {} THEN NotifyRespond(q, 200, 0)
                   ELSE [notify EXCEPT
                            ![q].pc = "update",
                            ![q].resultIds = ids,
                            ![q].students = StudentsOf(results, ids, notify[q].server)]
    /\ UNCHANGED <<results, delivered, publish, notifyFrame>>

\* update({status: 'published'}).in('id', resultIds) is answered
\* (part_001:249-277, part_000:170-205): the rows read as pending are
\* written, whatever their status is by now.  The SMS server then asks for
\* the CGPA of every student; the notification server starts its loop.
notifyResults_update(q) ==
    /\ notify[q].pc = "update"
    /\ \E updateError \in BOOLEAN :
         IF updateError
             THEN /\ notify' = NotifyRespond(q, 500, 0)
                  /\ UNCHANGED results
         ELSE /\ results' = [r \in 1..Len(results) |->
                                IF r \in notify[q].resultIds
                                    THEN [results[r] EXCEPT !.status = "published"]
                                    ELSE results[r]]
              /\ notify' =
                    IF notify[q].server = "sms-server"
                        THEN [notify EXCEPT
                                 ![q].pc = "cgpa",
                                 ![q].cgpa = [k \in 1..Len(notify[q].students) |-> Waiting]]
                    ELSE LET run == notification_loop(
                                        ServerRun("notify-results",
                                            [k \in 1..Len(notify[q].students) |->
                                                StudentRow(notify[q].students[k])],
                                            <<>>))
                         IN [notify EXCEPT ![q].pc = AfterLoop(run), ![q].run = run]
    /\ UNCHANGED <<delivered, publish, notifyFrame>>

\* One call of calculate_student_cgpa is answered (part_001:264-282); with
\* the last answer Promise.all resolves, the answers are in the rows of
\* studentsWithCGPA and nowhere else, and processSMSBatch runs up to its
\* first await.
notifyResults_cgpa(q) ==
    /\ notify[q].pc = "cgpa"
    /\ \E k \in 1..Len(notify[q].cgpa), answer \in CgpaAnswers :
         /\ notify[q].cgpa[k] = Waiting
         /\ LET answers == [notify[q].cgpa EXCEPT ![k] = answer]
                run == processSMSBatch_loop(
                           ServerRun("sms-server",
                                     StudentsWithCGPA(results, notify[q].resultIds,
                                                      notify[q].students, answers),
                                     ResultsTemplate))
            IN notify' = IF \E o \in 1..Len(answers) : answers[o] = Waiting
                             THEN [notify EXCEPT ![q].cgpa = answers]
                             ELSE [notify EXCEPT ![q].cgpa = <<>>,
                                                 ![q].pc = AfterLoop(run),
                                                 ![q].run = run]
    /\ UNCHANGED <<results, delivered, publish, notifyFrame>>

\* The loop over the students takes a step (part_001:282, 111-169,
\* part_000:196-232): the gateway answers a request or a timer fires.  An
\* accepted SMS announces the results of its student; when the step ends the
\* loop the notifications are inserted.
notifyResults_send(q) ==
    /\ notify[q].pc = "batch"
    /\ \E next \in RunNext(notify[q].run) :
         /\ notify' = [notify EXCEPT ![q].pc = AfterLoop(next), ![q].run = next]
         /\ delivered' = IF Len(next.sent) > Len(notify[q].run.sent)
                             THEN delivered (+) SetToBag(Announced(q, notify[q].run))
                             ELSE delivered
    /\ UNCHANGED <<results, publish, notifyFrame>>

\* The insert of the notifications is answered, whatever the answer, and
\* the response is sent (part_001:284-326, part_000:234-266).
notifyResults_respond(q) ==
    /\ notify[q].pc = "insert"
    /\ notify' = NotifyRespond(q, 200, Len(notify[q].run.sent))
    /\ UNCHANGED <<results, delivered, publish, notifyFrame>>

-----------------------------------------------------------------------------
(* Page: NotificationService.publishAndNotifyResults                         *)

\* The e-mail addresses of the students of the roster.
StudentEmails ==
    << <<"a", "d", "a", "@", "m", "a", "p", "o", "l", "y", ".", "n", "g">>,
       <<"b", "o", "l", "a", "@", "m", "a", "p", "o", "l", "y">> >>

\* The characters \s of a JavaScript pattern matches, as far as a string of
\* the model can hold them: space, tab, line feed, carriage return, form
\* feed, vertical tab, no-break space, ogham space mark and byte order mark.
\* U+2000 to U+200A, U+2028, U+2029, U+202F, U+205F and U+3000, which \s
\* matches too, are in no string of the model.
WhiteSpace ==
    {" ", "\t", "\n", "\r", "\f", "", " ", " ", "﻿"}

\* isValidEmail (notificationService.ts:300-303): the pattern
\* ^[^\s@]+@[^\s@]+\.[^\s@]+$
isValidEmail(email) ==
    /\ \A k \in 1..Len(email) : email[k] \notin WhiteSpace
    /\ \E a \in 2..Len(email) :
         /\ email[a] = "@"
         /\ \A k \in 1..Len(email) : email[k] = "@" => k = a
         /\ \E d \in (a + 2)..(Len(email) - 1) : email[d] = "."

\* sendDetailedNotifications: maxRetries (notificationService.ts:683)
maxRetries == 3

\* groupResultsByStudent (notificationService.ts:311-345): the students of
\* the results, each once, in the order of their first result.
groupResultsByStudent(table, ids) == StudentsOf(table, ids, "page")

\* The e-mail loop after the student at publish.pos is done: emailjs.send
\* for the next student, or, after the last, the health check of the SMS
\* service (notificationService.ts:682-690, 745).
NextStudent(pub) ==
    [pub EXCEPT !.pos = @ + 1, !.retryCount = 0,
                !.pc = IF pub.pos + 1 < Len(pub.studentResults)
                           THEN "email" ELSE "health"]

publishFrame == <<notifyFrame, delivered>>

\* publishAndNotifyResults() is called and asks for the pending and
\* published results (notificationService.ts:54-67).
publishAndNotifyResults ==
    /\ publish.pc = "idle"
    /\ publish' = [publish EXCEPT !.pc = "select"]
    /\ UNCHANGED <<results, notify, publishFrame>>

\* The query is answered (notificationService.ts:69-117, 682-705): an error
\* is thrown to the catch, which returns createErrorResult (138-141, success
\* false); with no result, or none of a student with a valid address,
\* createEmptyResult is returned (73-76, 84-89, 927: success true).  Else the
\* results of students with a valid address are kept; the pending ones are
\* updated, or, with none pending, the first e-mail is sent.
publishAndNotifyResults_select ==
    /\ publish.pc = "select"
    /\ \E resultsError \in BOOLEAN :
         LET found == 1..Len(results)
             validResults ==
                 { r \in found : isValidEmail(StudentEmails[results[r].student]) }
             pendingIds == validResults \cap PendingResults(results)
             studentResults == groupResultsByStudent(results, validResults)
         IN publish' =
                IF resultsError
                    THEN [publish EXCEPT !.pc = "returned",
                             !.errors = Append(@, "Failed to fetch results")]
                ELSE IF found = {}
                    THEN [publish EXCEPT !.pc = "returned", !.success = TRUE]
                ELSE IF validResults = {}
                    THEN [publish EXCEPT !.pc = "returned", !.success = TRUE,
                             !.errors = Append(@, "No students with valid email addresses found")]
                ELSE [publish EXCEPT
                         !.pc = IF pendingIds # {} THEN "update" ELSE "email",
                         !.validResults = validResults,
                         !.pendingIds = pendingIds,
                         !.studentResults = studentResults]
    /\ UNCHANGED <<results, notify, publishFrame>>

\* The update of the pending results is answered
\* (notificationService.ts:100-117): they are published by the page itself.
publishAndNotifyResults_update ==
    /\ publish.pc = "update"
    /\ \E updateError \in BOOLEAN :
         IF updateError
             THEN /\ publish' = [publish EXCEPT !.pc = "returned",
                                    !.errors = Append(@, "Failed to update results status")]
                  /\ UNCHANGED results
         ELSE /\ results' = [r \in 1..Len(results) |->
                                IF r \in publish.pendingIds
                                    THEN [results[r] EXCEPT !.status = "published"]
                                    ELSE results[r]]
              /\ publish' = [publish EXCEPT
                                !.pc = "email",
                                !.resultsPublished = Cardinality(publish.pendingIds)]
    /\ UNCHANGED <<notify, publishFrame>>

\* emailjs.send is answered (notificationService.ts:692-741): after a sent
\* e-mail the 100 ms timer is started; after a failed one the retry timer,
\* or, after the third failure, the next student's turn comes.
sendDetailedNotifications_email ==
    /\ publish.pc = "email"
    /\ \E sent \in BOOLEAN :
         publish' =
             IF sent THEN [publish EXCEPT !.pc = "email_delay", !.emailsSent = @ + 1]
             ELSE IF publish.retryCount + 1 >= maxRetries
                 THEN NextStudent([publish EXCEPT
                                      !.errors = Append(@, "Email failed")])
             ELSE [publish EXCEPT !.pc = "email_wait", !.retryCount = @ + 1]
    /\ UNCHANGED <<results, notify, publishFrame>>

\* The 100 ms timer after a sent e-mail fires (notificationService.ts:719).
sendDetailedNotifications_delay ==
    /\ publish.pc = "email_delay"
    /\ publish' = NextStudent(publish)
    /\ UNCHANGED <<results, notify, publishFrame>>

\* The timer before a retry fires (notificationService.ts:738): the e-mail
\* is sent again.
sendDetailedNotifications_wait ==
    /\ publish.pc = "email_wait"
    /\ publish' = [publish EXCEPT !.pc = "email"]
    /\ UNCHANGED <<results, notify, publishFrame>>

\* checkSMSServiceHealth is answered (notificationService.ts:745-760,
\* 275-297): with a healthy service POST /api/notify-results is sent, which
\* reaches one of the servers or none; otherwise the notifications are
\* stored.
sendDetailedNotifications_health ==
    /\ publish.pc = "health"
    /\ \/ /\ publish' = [publish EXCEPT !.pc = "store"]
          /\ UNCHANGED notify
       \/ /\ publish' = [publish EXCEPT !.pc = "post", !.request = 0]
          /\ UNCHANGED notify
       \/ \E q \in Requests, server \in ApiServers :
            /\ notify[q].pc = "idle"
            /\ \A o \in Requests : o < q => notify[o].pc # "idle"
            /\ publish' = [publish EXCEPT !.pc = "post", !.request = q]
            /\ notify' = IF server = "sms-server" /\ apiKey = KeyUnset
                             THEN [NotifyRespond(q, 500, 0) EXCEPT
                                      ![q].server = server, ![q].origin = "publish"]
                             ELSE [notify EXCEPT ![q].pc = "select",
                                                 ![q].server = server,
                                                 ![q].origin = "publish"]
    /\ UNCHANGED <<results, publishFrame>>

\* The POST is answered (notificationService.ts:750-776, 123): smsSent of a
\* 2xx response is taken, any other response is an error.  Or the fetch, or
\* response.json(), rejects, whatever the server has done with the request:
\* the catch records that the service is unavailable and smsSent stays 0.
\* Then the notifications are stored.
sendDetailedNotifications_response ==
    /\ publish.pc = "post"
    /\ \/ /\ publish.request # 0
          /\ notify[publish.request].pc = "responded"
          /\ publish' =
                IF notify[publish.request].status = 200
                    THEN [publish EXCEPT !.pc = "store",
                             !.smsSent = notify[publish.request].smsSent]
                    ELSE [publish EXCEPT !.pc = "store",
                             !.errors = Append(@, "SMS service request failed")]
       \/ publish' = [publish EXCEPT !.pc = "store",
                         !.errors = Append(@, "SMS service unavailable")]
    /\ UNCHANGED <<results, notify, publishFrame>>

\* The insert of storeNotifications is answered and
\* publishAndNotifyResults returns (notificationService.ts:123-137,
\* 882-900).
publishAndNotifyResults_store ==
    /\ publish.pc = "store"
    /\ \E notificationError \in BOOLEAN :
         publish' = [publish EXCEPT
                        !.pc = "returned", !.success = TRUE,
                        !.errors = IF notificationError
                                       THEN Append(@, "Failed to store notification records")
                                       ELSE @]
    /\ UNCHANGED <<results, notify, publishFrame>>

\* The servers are up, results are in the table, no request has arrived.
InitNotify ==
    /\ NormIdle
    /\ BatchIdle
    /\ onProgress = FALSE
    /\ apiKey \in {KeySet, KeyUnset}
    /\ bulk = [sent |-> 0, failed |-> 0, results |-> <<>>]
    /\ sms_records = <<>>
    /\ loc = [p \in Procs |-> IdleLocals]
    /\ sweep = [p \in Procs |-> IdleSweep]
    /\ upd = [p \in Procs |-> IdleUpd]
    /\ gatewaySends = EmptyBag
    /\ cpc = [p \in Procs |-> "idle"]
    /\ api = IdleApi
    /\ results \in ResultTables
    /\ notify = [q \in Requests |-> IdleNotify]
    /\ delivered = EmptyBag
    /\ publish = IdlePublish

\* The requests, overlapping at the awaits of the handlers.
NextNotify ==
    \/ \E q \in Requests : notifyResults_receive(q)
    \/ \E q \in Requests : notifyResults_select(q)
    \/ \E q \in Requests : notifyResults_update(q)
    \/ \E q \in Requests : notifyResults_cgpa(q)
    \/ \E q \in Requests : notifyResults_send(q)
    \/ \E q \in Requests : notifyResults_respond(q)

\* The page's publishAndNotifyResults and the request it posts.
NextPublish ==
    \/ publishAndNotifyResults
    \/ publishAndNotifyResults_select
    \/ publishAndNotifyResults_update
    \/ sendDetailedNotifications_email
    \/ sendDetailedNotifications_delay
    \/ sendDetailedNotifications_wait
    \/ sendDetailedNotifications_health
    \/ sendDetailedNotifications_response
    \/ publishAndNotifyResults_store
    \/ \E q \in Requests : notifyResults_select(q)
    \/ \E q \in Requests : notifyResults_update(q)
    \/ \E q \in Requests : notifyResults_cgpa(q)
    \/ \E q \in Requests : notifyResults_send(q)
    \/ \E q \in Requests : notifyResults_respond(q)

SpecPublish == InitNotify /\ [][NextPublish]_vars

SpecNotify == InitNotify /\ [][NextNotify]_vars

\* ---------------------------------------------------------------------
\* Retry-all sweeps alone, with a gateway that fails every send: the sweeps
\* of the admin page run one after the other (smsService.ts:395-431).
\* ---------------------------------------------------------------------
NextSweep ==
    \/ \E p \in Procs : AllIdle /\ retryAll_start(p)
    \/ \E p \in Procs : retryAll_next(p)
    \/ \E p \in Procs : retrySMS_mark(p)
    \/ \E p \in Procs : sendSMSToStudent_format(p)
    \/ \E p \in Procs : sendSMSToStudent_invalid(p)
    \/ \E p \in Procs : sendSMSToStudent_send(p) /\ ~loc'[p].smsResult.success
    \/ \E p \in Procs : sendSMSToStudent_update(p)
    \/ \E p \in Procs : retrySMS_return(p)
    \/ \E p \in Procs : retryAll_tally(p)
    \/ \E p \in Procs : retryAll_returned(p)

SpecSweep == InitRace /\ [][NextSweep]_vars

InitNorm == NormInit /\ BatchIdle /\ ClientIdle

SpecNorm == InitNorm /\ [][NormNext]_vars

-----------------------------------------------------------------------------
(* Observations shared by the batch claims *)

Recipients == 0..(Len(students) - 1)

\* The normalizer the running dispatcher applies.
NormalizerOf(phone) ==
    IF impl = "server" THEN formatPhone(phone) ELSE formatPhoneNumber(phone)

\* The Phone Normalizer as the specification states it (section 4.1).
SpecNormalize(phone) ==
    IF phone = <<>> \/ phone = Null \/ phone = NonString THEN Null
    ELSE LET digits == StripNonDigits(phone)
             withCode ==
                 IF StartsWith(digits, <<"0">>) THEN CountryCode \o Tail(digits)
                 ELSE IF StartsWith(digits, CountryCode) THEN digits
                 ELSE IF Len(digits) = 10 THEN CountryCode \o digits
                 ELSE digits
         IN IF Len(withCode) = 13 /\ withCode[4] \in MobilePrefixes
                THEN withCode ELSE Null

\* The events of kind that belong to the recipient at index k.
EventsFor(kind, k) == SelectSeq(trace, LAMBDA e : e.ev = kind /\ e.idx = k)

\* The answers the gateway gave to the HTTP requests made for recipient k.
AnswersFor(k) ==
    LET reqs == EventsFor("request", k) IN [j \in 1..Len(reqs) |-> reqs[j].status]

SentCount == IF impl = "server" THEN Len(srv.sent) ELSE bulk.sent
FailedCount == IF impl = "server" THEN Len(srv.failed) ELSE bulk.failed

\* Recipient k is reported as sent / as failed with the error err.
ReportedSent(k) ==
    IF impl = "server"
        THEN \E j \in 1..Len(srv.sent) :
                srv.sent[j].student = StudentName(students[k + 1])
        ELSE /\ k + 1 <= Len(bulk.results)
             /\ bulk.results[k + 1].student_id = students[k + 1].id
             /\ bulk.results[k + 1].success

ReportedFailed(k) ==
    IF impl = "server"
        THEN \E j \in 1..Len(srv.failed) :
                srv.failed[j].student = StudentName(students[k + 1])
        ELSE /\ k + 1 <= Len(bulk.results)
             /\ bulk.results[k + 1].student_id = students[k + 1].id
             /\ ~bulk.results[k + 1].success

ReportedFailedWith(k, err) ==
    IF impl = "server"
        THEN \E j \in 1..Len(srv.failed) :
                /\ srv.failed[j].student = StudentName(students[k + 1])
                /\ srv.failed[j].error = err
        ELSE /\ k + 1 <= Len(bulk.results)
             /\ bulk.results[k + 1].student_id = students[k + 1].id
             /\ ~bulk.results[k + 1].success
             /\ bulk.results[k + 1].error = err

\* The rows of sms_records written for the student of recipient k.
RecordsOf(k) ==
    { r \in 1..Len(sms_records) : sms_records[r].student_id = students[k + 1].id }

BatchRunning == impl \in {"server", "client"}
BatchDone == BatchRunning /\ bpc = "done"

-----------------------------------------------------------------------------
(* Claims about the batch dispatchers *)

\* C3: a recipient whose phone number fails normalization gets no gateway
\* call and no Delivery Record; once processed it is reported as failed with
\* the reason "Invalid phone number format", and the dispatch still processes
\* every recipient after it.
C3_InvalidPhoneSkipped ==
    BatchRunning =>
        \A k \in Recipients :
            NormalizerOf(students[k + 1].phone) = Null =>
                /\ EventsFor("send", k) = <<>>
                /\ EventsFor("request", k) = <<>>
                /\ RecordsOf(k) = {}
                /\ k < i => ReportedFailedWith(k, InvalidPhoneError)
                /\ BatchDone => i = Len(students)

C3_Witness ==
    /\ BatchDone
    /\ Len(students) = 2
    /\ NormalizerOf(students[1].phone) = Null
    /\ ReportedFailedWith(0, InvalidPhoneError)
    /\ ReportedSent(1)
    /\ impl = "client"

\* C4: the result of a batch dispatch has total = length of the input list
\* and sent + failed = total; sent counts exactly the recipients whose gateway
\* send succeeded, and every recipient is reported exactly once.
C4_CountsAddUp ==
    BatchDone =>
        /\ returned.total = Len(students)
        /\ SentCount + FailedCount = returned.total
        /\ SentCount =
             Cardinality({ k \in Recipients :
                             \E j \in 1..Len(AnswersFor(k)) : AnswersFor(k)[j] \in OkAnswers })
        /\ \A k \in Recipients : ReportedSent(k) # ReportedFailed(k)
        /\ IF impl = "server"
               THEN returned = srv
               ELSE /\ returned.sent = bulk.sent /\ returned.failed = bulk.failed
                    /\ Len(returned.results) = Len(students)

C4_Witness ==
    /\ BatchDone
    /\ impl = "client"
    /\ returned.sent = 1
    /\ returned.failed = 1
    /\ \E k \in Recipients : students[k + 1].phone = NonString

\* C5: a recipient's failure (invalid phone, gateway failure, exception while
\* processing it) never aborts the batch: the dispatch never raises, it can
\* always take its next step until it has returned, and when it has returned
\* every one of the N recipients has been processed and reported.
C5_BatchNeverAborts ==
    BatchRunning =>
        /\ bpc # "raised"
        /\ bpc = "done" \/ ENABLED Next
        /\ bpc = "done" =>
              /\ i = Len(students)
              /\ returned # NoValue
              /\ \A k \in Recipients : ReportedSent(k) \/ ReportedFailed(k)

C5_Witness ==
    /\ BatchDone
    /\ Len(students) = 2
    /\ students[1].phone = NonString
    /\ ReportedFailedWith(0, TypeErrorMessage)
    /\ ReportedSent(1)
    /\ impl = "client"

InvalidRecipients == { k \in Recipients : SpecNormalize(students[k + 1].phone) = Null }

\* C6: with M of the N recipients invalid per the rule of the specification
\* (13 digits, digit at position 3 in 7..9), failed >= M and at most N - M
\* Gateway Client sends are made.
C6_InvalidNeverSent ==
    BatchDone =>
        /\ FailedCount >= Cardinality(InvalidRecipients)
        /\ Len(EventsOf("send")) <= Len(students) - Cardinality(InvalidRecipients)

\* The server's dispatcher alone meets C6.
C6_ServerInvalidNeverSent == impl = "server" => C6_InvalidNeverSent

GatewayAcceptsAll ==
    \A j \in 1..Len(trace) : trace[j].ev = "request" => trace[j].status \in OkAnswers

\* C7: dispatching phones ["08031111111", "invalid", "08033333333"] with the
\* template "Hi {firstName}" and a gateway that accepts every request returns
\* total 3, sent 2, failed 1, the second recipient failed with "Invalid phone
\* number format" and no gateway request was made for it.
C7_EndToEnd ==
    ( /\ BatchDone
      /\ students = ScenarioStudents
      /\ messageTemplate = TemplateHi
      /\ GatewayAcceptsAll )
    =>
    /\ returned.total = 3
    /\ SentCount = 2
    /\ FailedCount = 1
    /\ ReportedFailedWith(1, InvalidPhoneError)
    /\ EventsFor("request", 1) = <<>>

\* The server's dispatcher alone passes the scenario.
C7_ServerEndToEnd == impl = "server" => C7_EndToEnd


WellFormedPhone(out) ==
    \/ out = Null
    \/ /\ Len(out) = 13
       /\ \A k \in 1..13 : out[k] \in Digits
       /\ out[4] \in MobilePrefixes

\* C1: every normalizer output is null or 13 digits whose digit at 0-indexed
\* position 3 is 7, 8 or 9.
C1_NormalizerShape ==
    normDone => WellFormedPhone(normClient) /\ WellFormedPhone(normServer)

\* The server's normalizer alone has the shape C1 asks for.
C1_ServerShape == normDone => WellFormedPhone(normServer)

AllDigits(s) == \A k \in 1..Len(s) : s[k] \in Digits

IsValidLocal(s) ==
    Len(s) = 11 /\ AllDigits(s) /\ s[1] = "0" /\ s[2] \in MobilePrefixes

IsValidInternational(s) ==
    Len(s) = 13 /\ AllDigits(s) /\ SubSeq(s, 1, 3) = CountryCode
                /\ s[4] \in MobilePrefixes

IsValidPlusInternational(s) ==
    Len(s) = 14 /\ s[1] = "+" /\ IsValidInternational(Tail(s))

\* C2: a valid 11-digit local number 0[789]xxxxxxxxx becomes 234 followed by
\* its 10 subscriber digits, and a number that already carries the country
\* code, with or without '+', becomes the same 13 digits without the '+'.
C2_ValidNumbersNormalize ==
    normDone =>
        /\ IsValidLocal(raw) =>
               /\ normClient = CountryCode \o Tail(raw)
               /\ normServer = CountryCode \o Tail(raw)
        /\ IsValidInternational(raw) =>
               normClient = raw /\ normServer = raw
        /\ IsValidPlusInternational(raw) =>
               normClient = Tail(raw) /\ normServer = Tail(raw)

C2_Witness ==
    /\ normDone
    /\ raw = <<"0", "8", "0", "3", "1", "2", "3", "4", "5", "6", "7">>
    /\ normClient = <<"2", "3", "4", "8", "0", "3", "1", "2", "3", "4", "5", "6", "7">>
    /\ normServer = normClient

SendSteps(k) ==
    SelectSeq(trace, LAMBDA e : e.idx = k /\ e.ev \in {"request", "backoff"})

\* The send for recipient k is over: the recipient is reported.
SendOver(k) == ReportedSent(k) \/ ReportedFailed(k)

\* C8: one call of the server's sendSMS makes its HTTP requests one after
\* the other with the 2 s wait between two of them; a 429 is followed by a
\* retry while retries are left; answers 429, 200 give success after exactly
\* one wait (2 requests); answers 429, 429, 429 give failure after exactly 3
\* requests, and a fourth is never made.
C8_RateLimitRetry ==
    impl = "server" =>
        \A k \in Recipients :
            LET a == AnswersFor(k)
                waits == Len(EventsFor("backoff", k))
                steps == SendSteps(k)
                asking == k = i /\ bpc = "request"
            IN /\ Len(a) <= 3
               /\ (Len(a) \in 1..2 /\ a[Len(a)] = "429") =>
                      /\ ~SendOver(k)
                      /\ k = i
                      /\ bpc \in {"backoff", "request"}
               /\ \A j \in 1..Len(steps) :
                     steps[j].ev = IF j % 2 = 1 THEN "request" ELSE "backoff"
               /\ Len(a) > 0 => waits = IF asking THEN Len(a) ELSE Len(a) - 1
               /\ SendOver(k) => ~asking
               /\ a = <<"429", "200">> => ReportedSent(k) /\ waits = 1
               /\ a = <<"429", "429", "429">> => ReportedFailed(k) /\ waits = 2

C8_Witness ==
    /\ BatchDone
    /\ impl = "server"
    /\ Len(students) = 2
    /\ AnswersFor(0) = <<"429", "200">>
    /\ ReportedSent(0)
    /\ AnswersFor(1) = <<"429", "429", "429">>
    /\ ReportedFailed(1)

\* C9: a Gateway Client send whose request fails with anything other than
\* 429 makes no further request, returns failure with the error (the
\* recipient is reported failed with it), and no send ever raises.
C9_PermanentFailureNotRetried ==
    BatchRunning =>
        /\ EventsOf("raise") = <<>>
        /\ \A k \in Recipients :
              LET a == AnswersFor(k) IN
              \A j \in 1..Len(a) :
                  a[j] \notin OkAnswers \cup {"429"} =>
                      /\ j = Len(a)
                      /\ Len(EventsFor("send", k)) = 1
                      /\ k < i => ReportedFailedWith(k, SendError(a[j]))

C9_Witness ==
    /\ BatchDone
    /\ impl = "client"
    /\ Len(students) = 2
    /\ AnswersFor(0) = <<"network">>
    /\ ReportedFailedWith(0, "network")
    /\ ReportedSent(1)

\* C9 on the server: a timeout after a 429 ends the send.
C9_ServerWitness ==
    /\ BatchDone
    /\ impl = "server"
    /\ \E k \in Recipients :
          AnswersFor(k) = <<"429", "timeout">> /\ ReportedFailedWith(k, "timeout")

\* A retrySMS call of caller p has returned, and the record it read had
\* reached the ceiling.
RetryRefusedAt(p) ==
    /\ cpc[p] = "retry_return"
    /\ loc[p].op = "retry"
    /\ loc[p].attempts >= MAX_RETRIES

\* C10: retrySMS on a record whose attempts is >= 3 returns the failure
\* "Maximum retry attempts reached", has made no Gateway Client send and has
\* issued no write to the store; the record's attempts is as it was read.
C10_RetryAtCeilingRefused ==
    \A p \in Procs :
        RetryRefusedAt(p) =>
            /\ loc[p].ret = Ret(FALSE, 0, MaxRetryError)
            /\ loc[p].sends = 0
            /\ loc[p].writes = 0
            /\ sms_records[loc[p].recordId].attempts = loc[p].attempts

\* A retry was refused for a record with exactly MAX_RETRIES attempts.
C10_Witness ==
    \E p \in Procs :
        /\ RetryRefusedAt(p)
        /\ loc[p].attempts = MAX_RETRIES
        /\ loc[p].ret.error = MaxRetryError

\* The elements of a sequence.
Range(q) == { q[k] : k \in 1..Len(q) }

\* C11: a retry-all whose read of the table succeeded selects exactly the
\* records (of its scope) with status failed and attempts < 3, without
\* repetition; it calls retrySMS for them one at a time in the order of the
\* list, each once; the summary it returns has total = number of selected
\* records = successful + failed, and errors holds one error per failed retry.
C11_RetryAllSelectsAndCounts ==
    \A p \in Procs :
        /\ ( /\ cpc[p] \in {"sweep_loop", "sweep_return"}
             /\ sweep[p].fetched
             /\ sweep[p].retried = <<>> )
           => /\ \A r \in 1..Len(sms_records) :
                    r \in Range(sweep[p].selected) <=>
                        /\ sms_records[r].status = "failed"
                        /\ sms_records[r].attempts < 3
                        /\ (sweep[p].scope = 0
                               \/ sms_records[r].student_id = sweep[p].scope)
              /\ Cardinality(Range(sweep[p].selected)) = Len(sweep[p].selected)
        /\ loc[p].op = "sweep"
           => /\ sweep[p].retried = SubSeq(sweep[p].selected, 1, sweep[p].pos + 1)
              /\ loc[p].recordId = sweep[p].selected[sweep[p].pos + 1]
        /\ cpc[p] = "sweep_return"
           => /\ sweep[p].retried = sweep[p].selected
              /\ sweep[p].total = Len(sweep[p].selected)
              /\ sweep[p].total = sweep[p].successful + sweep[p].failed
              /\ Len(sweep[p].errors) = sweep[p].failed

\* A retry-all returned after retrying two records, one with success and
\* one with an error.
C11_Witness ==
    \E p \in Procs :
        /\ cpc[p] = "sweep_return"
        /\ sweep[p].total = 2
        /\ sweep[p].successful = 1
        /\ Len(sweep[p].errors) = 1

\* The number of Gateway Client sends made for record r.
SendsFor(r) == CopiesIn(r, gatewaySends)

\* C12: whenever no call is in flight, every record's attempts equals the
\* number of Gateway Client sends made for it (1 after the first dispatch,
\* one more for each retry).
C12_AttemptsCountSends ==
    AllIdle =>
        \A r \in 1..Len(sms_records) : sms_records[r].attempts = SendsFor(r)

\* Caller p has finished a call of updateSMSRecord and the other caller has
\* made none.
UpdatedAlone(p) ==
    /\ cpc[p] = "upd_done"
    /\ \A q \in Procs \ {p} : upd[q].calls = 0

\* C13: every call of updateSMSRecord on an existing record leaves attempts
\* exactly one higher than it was when the call started, and two calls with
\* the same outcome data leave it two higher.
C13_UpdateAddsOne ==
    \A p \in Procs :
        UpdatedAlone(p) =>
            /\ sms_records[1].attempts = upd[p].before + 1
            /\ upd[p].calls = 2 => sms_records[1].attempts = upd[p].first + 2

\* C14: when each of the two callers has made one update of the record and
\* both have completed, attempts is exactly 2 higher than before they
\* started, however their requests and answers interleaved.
C14_NoLostIncrement ==
    ( /\ AllIdle
      /\ \A p \in Procs : upd[p].calls = 1 )
    => \A p \in Procs : sms_records[1].attempts = upd[p].base + 2

-----------------------------------------------------------------------------
(* Claims about the HTTP endpoints *)

\* The request lacks a field its endpoint requires, as the notification
\* server checks it (part_000:288-300, 410-424, 496-502): studentIds
\* missing, not an array or empty; title, message or the phone missing or
\* empty.  The phone of /test-sms is the field phoneNumber on the SMS
\* server and phone on the notification server.
Malformed ==
    \/ /\ api.endpoint = "notify-custom"
       /\ \/ JsFalsy(api.body.studentIds)
          \/ api.body.studentIds = NotAnArray
          \/ JsFalsy(api.body.title)
          \/ JsFalsy(api.body.message)
    \/ /\ api.endpoint = "notify-bulk"
       /\ \/ JsFalsy(api.body.studentIds)
          \/ api.body.studentIds = NotAnArray
          \/ JsFalsy(api.body.message)
    \/ /\ api.endpoint = "test-sms"
       /\ \/ JsFalsy(IF api.server = "sms-server"
                         THEN api.body.phoneNumber ELSE api.body.phone)
          \/ JsFalsy(api.body.message)

\* C15: a request to /notify-custom without studentIds, title or message,
\* and a request to /test-sms without phone or message, is answered with
\* status 400 and no request is made to the gateway.
C15_MalformedAnswers400 ==
    (api.pc = "responded" /\ Malformed) =>
        api.status = 400 /\ GatewayRequests = 0

\* The notification server (part_000) does answer 400 to every malformed
\* request, without a gateway request.
C15_NotificationServerAnswers400 ==
    api.server = "notification-server" => C15_MalformedAnswers400

\* The SMS server's /test-sms answers 400 when the phone is missing, and its
\* /notify-custom when title or message is missing.
C15_SmsServerChecks ==
    ( /\ api.pc = "responded"
      /\ api.server = "sms-server"
      /\ \/ api.endpoint = "test-sms" /\ JsFalsy(api.body.phoneNumber)
         \/ /\ api.endpoint = "notify-custom"
            /\ JsFalsy(api.body.title) \/ JsFalsy(api.body.message) )
    => api.status = 400 /\ GatewayRequests = 0

-----------------------------------------------------------------------------
(* Claims about the progress callback *)

\* The dispatcher is sendBulkSMS and was given a progress callback.
WithProgress == impl = "client" /\ onProgress

\* The loop of sendBulkSMS has entered the body for recipient k.
Started(k) == k < i \/ (k = i /\ bpc = "loop" /\ cpc["p1"] # "bulk_loop")

\* C16: when onProgress has been invoked for recipient i, recipient i has been
\* processed: its send or its rejection is over and its outcome is counted.
C16_ProgressAfterProcessing ==
    WithProgress =>
        \A j \in 1..Len(trace) :
            trace[j].ev = "progress" => Len(bulk.results) > trace[j].idx

\* C16 (amended): onProgress is invoked once per recipient, when the loop
\* reaches the recipient: after everything done for the recipients before it
\* and before anything is done for the recipient itself.
C16_ProgressBeforeProcessing ==
    WithProgress =>
        /\ \A k \in Recipients :
               Len(EventsFor("progress", k)) = IF Started(k) THEN 1 ELSE 0
        /\ \A j \in 1..Len(trace) :
               trace[j].ev = "progress" =>
                   \A h \in 1..Len(trace) :
                       h # j => (h < j <=> trace[h].idx < trace[j].idx)

\* The callback has been made for the second recipient after a send for the
\* first, and the second has been sent to as well.
C16_Witness ==
    /\ WithProgress
    /\ EventsFor("progress", 1) # <<>>
    /\ EventsFor("send", 0) # <<>>
    /\ EventsFor("send", 1) # <<>>

-----------------------------------------------------------------------------
(* Claims about the length of the messages *)

\* The messages the running batch dispatch has handed to the Gateway Client:
\* processSMSBatch sends the rendered message of each recipient it sends to,
\* sendBulkSMS the message of the sendSMSToStudent call in progress (the
\* earlier ones are in the records).
GatewayMessages ==
    IF impl = "server"
        THEN { RenderMessage(messageTemplate, students[k + 1]) :
                   k \in { r \in Recipients : EventsFor("send", r) # <<>> } }
        ELSE { loc[p].message :
                   p \in { q \in Procs : /\ loc[q].op = "bulk"
                                         /\ EventsFor("send", loc[q].idx) # <<>> } }

\* C17: every message a batch dispatch hands to the Gateway Client, and the
\* message of every Delivery Record, has at most 160 characters.
C17_MessagesWithinLimit ==
    BatchRunning =>
        /\ \A m \in GatewayMessages : Len(m) <= SmsLimit
        /\ \A r \in 1..Len(sms_records) : Len(sms_records[r].message) <= SmsLimit

\* processSMSBatch keeps to the limit.
C17_ServerWithinLimit == impl = "server" => C17_MessagesWithinLimit

-----------------------------------------------------------------------------
(* Claims about the Delivery Records under sends and retries *)

\* C18: in every reachable state every Delivery Record has attempts <= 3.
C18_AttemptsWithinCeiling ==
    \A r \in 1..Len(sms_records) : sms_records[r].attempts <= MAX_RETRIES

\* A retry of a record one attempt below the ceiling has returned after
\* issuing its two updates, 'retry' and the outcome.
C18_Witness ==
    \E p \in Procs :
        /\ loc[p].op \in {"retry", "sweep"}
        /\ cpc[p] = "retry_return"
        /\ loc[p].attempts = MAX_RETRIES - 1
        /\ loc[p].writes = 2
        /\ sms_records[loc[p].recordId].attempts <= MAX_RETRIES

\* retrySMS has returned success for a record it read as failed.
RetriedWithSuccess(p) ==
    /\ cpc[p] = "retry_return"
    /\ loc[p].op \in {"retry", "sweep"}
    /\ loc[p].status = "failed"
    /\ loc[p].ret.success

\* C19: every record with status failed has an error message, and every
\* record with status sent has none; a record that had failed and was
\* retried with success is one of the latter: it is sent and has no error
\* message.
C19_StatusAndErrorAgree ==
    /\ \A r \in 1..Len(sms_records) :
        /\ sms_records[r].status = "failed" => sms_records[r].error_message # UndefStr
        /\ sms_records[r].status = "sent" => sms_records[r].error_message = UndefStr
    /\ \A p \in Procs :
        RetriedWithSuccess(p) =>
            /\ sms_records[loc[p].recordId].status = "sent"
            /\ sms_records[loc[p].recordId].error_message = UndefStr

\* A caller is in, enters or leaves a retry (retrySMS, alone or called by a
\* retry-all) in this step.
RetryStep(p) ==
    \/ loc[p].op \in {"retry", "sweep"}
    \/ loc'[p].op \in {"retry", "sweep"}
    \/ sweep[p] # sweep'[p]

\* The record a caller's retry is about.
Retried(p) == {loc[p].recordId, loc'[p].recordId}

\* C20: no step removes a record or changes a record's id, student, phone or
\* message; a step of a retry adds no record and changes nothing but the
\* attempts, status, error message and gateway message id of the record it
\* retries.
C20_RetryKeepsRecords ==
    [][ /\ Len(sms_records') >= Len(sms_records)
        /\ \A r \in 1..Len(sms_records) :
               /\ sms_records'[r].student_id = sms_records[r].student_id
               /\ sms_records'[r].phone_number = sms_records[r].phone_number
               /\ sms_records'[r].message = sms_records[r].message
        /\ \A p \in Procs :
               RetryStep(p) =>
                   /\ Len(sms_records') = Len(sms_records)
                   /\ \A r \in 1..Len(sms_records) :
                          r \notin Retried(p) => sms_records'[r] = sms_records[r]
      ]_vars

\* A retry has sent for its record again and issued its updates, in a
\* table that had and has two records.
C20_Witness ==
    \E p \in Procs :
        /\ loc[p].op \in {"retry", "sweep"}
        /\ cpc[p] = "sts_return"
        /\ loc[p].sends = 1
        /\ loc[p].writes = 2
        /\ Len(sms_records) = 2

-----------------------------------------------------------------------------
(* Claims about a batch that is dispatched again *)

\* The records of one student with one message.
RecordsOfPair(studentId, message) ==
    { r \in 1..Len(sms_records) : /\ sms_records[r].student_id = studentId
                                  /\ sms_records[r].message = message }

\* C21: a dispatch creates a record only when there is none yet for the
\* recipient and the message: after the same batch has been dispatched twice
\* there is exactly one record for each pair.
C21_OneRecordPerPair ==
    \A r \in 1..Len(sms_records) :
        RecordsOfPair(sms_records[r].student_id, sms_records[r].message) = {r}

\* C21 (amended): a dispatch never takes up an existing record.  For every
\* recipient whose phone is accepted it goes on to insert a record of its
\* own, and the insert either fails (no record id) or appends one new
\* pending record for the recipient and the message, whatever the table
\* holds already.
C21_RecordPerDispatch ==
    [][ \A p \in Procs :
          /\ ( /\ cpc[p] = "sts_format"
               /\ loc[p].op = "bulk"
               /\ cpc'[p] \notin {"sts_throw", "sts_return", "sts_format"} )
             => cpc'[p] = "sts_create"
          /\ ( cpc[p] = "sts_create" /\ cpc'[p] # "sts_create" )
             => \/ /\ sms_records' = sms_records
                   /\ loc'[p].currentRecordId = 0
                \/ /\ Len(sms_records') = Len(sms_records) + 1
                   /\ SubSeq(sms_records', 1, Len(sms_records)) = sms_records
                   /\ loc'[p].currentRecordId = Len(sms_records')
                   /\ sms_records'[Len(sms_records')].student_id = loc[p].studentId
                   /\ sms_records'[Len(sms_records')].message = loc[p].message
                   /\ sms_records'[Len(sms_records')].status = "pending"
      ]_vars

\* The same recipient has been dispatched the same message twice, and the
\* second dispatch works on a second record of the pair.
C21_Witness ==
    /\ Redispatches = 1
    /\ \E p \in Procs :
         /\ cpc[p] = "sts_send"
         /\ loc[p].currentRecordId = 2
         /\ RecordsOfPair(loc[p].studentId, loc[p].message) = {1, 2}

-----------------------------------------------------------------------------
(* Claims about failures of the store *)

\* The client's normalizer gives a phone for recipient k.
Accepted(k) ==
    LET phone == formatPhoneNumber(students[k + 1].phone)
    IN phone # Null /\ phone # TypeError

\* C22: whether the inserts and updates of the store succeed or fail, the
\* gateway send is made for every recipient whose phone is accepted, the
\* success flag of sendSMSToStudent is the gateway's answer, and the counts
\* of the batch are the numbers of those answers.
C22_StoreFailureKeepsOutcome ==
    impl = "client" =>
        /\ \A k \in Recipients :
               k + 1 <= Len(bulk.results) =>
                   /\ Len(EventsFor("send", k)) = IF Accepted(k) THEN 1 ELSE 0
                   /\ bulk.results[k + 1].success
                          <=> /\ Accepted(k)
                              /\ Len(AnswersFor(k)) = 1
                              /\ AnswersFor(k)[1] \in OkAnswers
        /\ bulk.sent = Cardinality({ k \in 1..Len(bulk.results) :
                                         bulk.results[k].success })
        /\ bulk.failed = Cardinality({ k \in 1..Len(bulk.results) :
                                           ~bulk.results[k].success })
        /\ \A p \in Procs :
               (cpc[p] = "sts_return" /\ loc[p].sends = 1) =>
                   loc[p].stsRet.success = loc[p].smsResult.success

\* A recipient is reported sent although its record could not be created,
\* and another although the outcome could not be stored.
C22_Witness ==
    /\ impl = "client"
    /\ Len(bulk.results) = 2
    /\ bulk.results[1].success
    /\ bulk.results[2].success
    /\ Len(sms_records) = 1
    /\ sms_records[1].status = "pending"

-----------------------------------------------------------------------------
(* Claims about the pacing of a batch *)

\* The loop has finished with recipient k.
Processed(k) == k < i

\* C23: after each recipient but the last the dispatcher pauses before it
\* starts the next one, and it does not pause after the last.
C23_PauseAfterEachRecipient ==
    BatchRunning =>
        \A k \in Recipients :
            Processed(k) =>
                Len(EventsFor("pace", k)) = IF k < Len(students) - 1 THEN 1 ELSE 0

\* The recipients after which the loop body reaches its wait: on the server
\* those sent to (an invalid phone continues the loop, an exception goes to
\* the catch), on the client all but those whose processing raised.
ReachesWait(k) ==
    IF impl = "server"
        THEN EventsFor("send", k) # <<>>
        ELSE formatPhoneNumber(students[k + 1].phone) # TypeError

\* C23 (amended): the dispatcher pauses once after a recipient that is not
\* the last one when the loop body ran to its end for it, and never after
\* the last recipient, after an exception or (server) after an invalid phone;
\* every recipient sent to is among those, so two gateway sends of a batch
\* always have a pause between them.
C23_PauseBetweenSends ==
    BatchRunning =>
        /\ \A k \in Recipients :
               Processed(k) =>
                   Len(EventsFor("pace", k)) =
                       IF k < Len(students) - 1 /\ ReachesWait(k) THEN 1 ELSE 0
        /\ \A a, b \in 1..Len(trace) :
               (a < b /\ trace[a].ev = "send" /\ trace[b].ev = "send") =>
                   \E c \in (a + 1)..(b - 1) : trace[c].ev = "pace"

\* The server has sent to the first and the third recipient with a pause in
\* between, and has not paused after the second, whose phone is invalid.
C23_Witness ==
    /\ impl = "server"
    /\ BatchDone
    /\ EventsFor("send", 0) # <<>>
    /\ EventsFor("pace", 0) # <<>>
    /\ EventsFor("send", 1) = <<>>
    /\ EventsFor("pace", 1) = <<>>
    /\ EventsFor("send", 2) # <<>>

-----------------------------------------------------------------------------
(* Claims about the rendering of templates *)

Placeholders == { PhFirstName, PhLastName, PhScore, PhCgpa }

\* The number of times pat occurs in s.
Occurrences(s, pat) ==
    Cardinality({ k \in 1..(Len(s) - Len(pat) + 1) :
                      SubSeq(s, k, k + Len(pat) - 1) = pat })

\* C24: the message rendered for a recipient contains no recognized
\* placeholder, whatever the template (the messages are shorter than the
\* limit, so nothing is cut).
C24_NoPlaceholderLeft ==
    impl = "server" =>
        \A j \in 1..Len(srv.sent) :
            \A ph \in Placeholders : Occurrences(srv.sent[j].message, ph) = 0

\* With a template in which no placeholder occurs twice, and names without
\* a dollar sign, nothing is left.
C24_SingleOccurrenceRendered ==
    ( /\ impl = "server"
      /\ \A ph \in Placeholders : Occurrences(messageTemplate, ph) <= 1
      /\ \A k \in 1..Len(students) :
             "$" \notin Range(students[k].first_name) \cup Range(students[k].last_name) )
    => C24_NoPlaceholderLeft

-----------------------------------------------------------------------------
(* Claims about overlapping retries *)

\* C25: however the retries of one record interleave, the Gateway Client
\* sends made for the record never number more than the retry ceiling.
C25_SendsWithinCeiling ==
    \A r \in 1..Len(sms_records) : SendsFor(r) <= MAX_RETRIES

-----------------------------------------------------------------------------
(* Claims about normalizing a normalized phone *)

\* C26: the normalizer of the client gives back its own output: when
\* formatPhoneNumber(x) is a phone y, formatPhoneNumber(y) is y, so that a
\* retry, which normalizes the stored phone again, sends to the same number.
C26_NormalizerIdempotent ==
    (normDone /\ normClient # Null /\ normClient # TypeError) =>
        formatPhoneNumber(normClient) = normClient

\* The normalizer of the server gives back its own output.
C26_ServerIdempotent ==
    (normDone /\ normServer # Null /\ normServer # TypeError) =>
        formatPhone(normServer) = normServer

\* The client's normalizer gives back its own output when that output is a
\* well-formed phone.
C26_WellFormedIdempotent ==
    (normDone /\ WellFormedPhone(normClient)) =>
        formatPhoneNumber(normClient) = normClient

-----------------------------------------------------------------------------
(* Claims about the status a call leaves behind *)

\* The status that goes with a returned success flag.
FinalStatus(success) == IF success THEN "sent" ELSE "failed"

\* The call has written to the store and the store carried out every write:
\* createSMSRecord returned an id, every updateSMSRecord returned true.
WritesSucceeded(p) == loc[p].writes > 0 /\ loc[p].stored = loc[p].writes

\* sendSMSToStudent, called without a record id, has returned and its
\* writes, the insert and the update, succeeded.
SendReturned(p) ==
    /\ cpc[p] = "sts_return"
    /\ loc[p].op = "send"
    /\ loc[p].currentRecordId # 0
    /\ WritesSucceeded(p)

\* retrySMS has returned for the record it read and its writes, the update
\* to retry and the update of sendSMSToStudent, succeeded.
RetryReturned(p) ==
    /\ cpc[p] = "retry_return"
    /\ loc[p].op \in {"retry", "sweep"}
    /\ loc[p].attempts # 0
    /\ WritesSucceeded(p)

\* C27: pending and retry are transient: whenever sendSMSToStudent or
\* retrySMS has returned and its store writes succeeded, the status of the
\* record is sent if it returned success and failed if not, never pending
\* or retry.
C27_TransientStatuses ==
    \A p \in Procs :
        /\ SendReturned(p) =>
               sms_records[loc[p].currentRecordId].status
                   = FinalStatus(loc[p].stsRet.success)
        /\ RetryReturned(p) =>
               sms_records[loc[p].recordId].status = FinalStatus(loc[p].ret.success)

\* No call that wrote to the store returns with every write carried out:
\* each makes an update, which the store refuses.
UpdateNeverStored ==
    \A p \in Procs :
        cpc[p] \in {"sts_return", "retry_return"} => ~WritesSucceeded(p)

\* A record retry-all would select now (smsService.ts:336-337, 401-404).
Eligible(r) == r \in Retryable(sms_records, 0)

\* C28: retrying is bounded when the gateway fails every send: once the
\* sweeps have brought a record to MAX_RETRIES failed sends and no call is
\* in flight, the record is no longer eligible (status failed with
\* attempts below MAX_RETRIES), so later sweeps make no gateway call.
C28_SweepsExhaustEligibility ==
    \A r \in 1..Len(sms_records) :
        ( /\ AllIdle
          /\ SendsFor(r) >= MAX_RETRIES )
        => ~Eligible(r)

\* C29: POST /api/notify-results sends the result-published SMS of a
\* result at most once, whatever the sequence or overlap of the requests:
\* no result has been announced by more than one accepted SMS.
C29_ResultSmsAtMostOnce ==
    \A r \in 1..Len(results) : CopiesIn(r, delivered) <= 1

\* C29 (order): a result is announced only once it is marked published,
\* so a failed update announces nothing.
C29_PublishedBeforeSms ==
    \A r \in 1..Len(results) :
        CopiesIn(r, delivered) > 0 => results[r].status = "published"

\* A caller's retrySMS has loaded its record in this step and goes on to
\* mark it and send (smsService.ts:356-373).
RetryGoesOn(p) == cpc[p] # "retry_mark" /\ cpc'[p] = "retry_mark"

\* C30: the Retry Coordinator re-sends only failed messages: retrySMS goes
\* on to the gateway only for a record whose status is 'failed' when it is
\* loaded, so it never goes on for a record whose status is 'sent'.
C30_SentNeverRetried ==
    [][ \A p \in Procs :
            RetryGoesOn(p) =>
                sms_records[loc'[p].recordId].status # "sent" ]_vars

====
